---- MODULE Spec2Model ----
(***************************************************************************)
(* InkBurn: layers/jobs of an SVG document exported to a GRBL command      *)
(* stream.  The module models the path optimizer, the hatch generator,     *)
(* the extraction cache and the export run, each as its own specification  *)
(* over its own variables.                                                 *)
(*                                                                         *)
(* Numbers.  Coordinates are integers; every point pool below is chosen so *)
(* that each Euclidean distance between two of its points is an integer    *)
(* (3-4-5 and 5-12-13 rectangles), hence math.hypot is exact on it.        *)
(* Python floats add with rounding to a fixed number of significant bits;  *)
(* FAdd keeps that: a sum is rounded to MantBits significant bits, ties to *)
(* even.  Coordinates stay below 2^MantBits, so coordinate arithmetic is   *)
(* exact, while accumulated lengths may exceed it and round.               *)
(***************************************************************************)
EXTENDS Integers, Sequences, FiniteSets, TLC

\* ------------------------------------------------------------------------
\* Bounds
\* ------------------------------------------------------------------------
MantBits == 5

MaxSegments == 3

MaxCalls == 4

MaxLayers == 2

\* ------------------------------------------------------------------------
\* Generic helpers
\* ------------------------------------------------------------------------
Abs(n) == IF n < 0 THEN -n ELSE n

RECURSIVE Pow2(_)
Pow2(k) == IF k = 0 THEN 1 ELSE 2 * Pow2(k - 1)

\* sequences over S of length 0..n
SeqUpTo(S, n) == UNION {[1..k -> S] : k \in 0..n}

\* ------------------------------------------------------------------------
\* Floating point addition (Python float, scaled down to MantBits bits)
\* ------------------------------------------------------------------------
RECURSIVE FExp(_, _)
\* number of low bits that do not fit into the significand of n >= 0
FExp(n, e) == IF n < Pow2(MantBits + e) THEN e ELSE FExp(n, e + 1)

\* round n to MantBits significant bits, ties to even
FRound(n) ==
    LET a == Abs(n)
        e == FExp(a, 0)
        u == Pow2(e)
        q == a \div u
        r == a % u
        up == (2 * r > u) \/ (2 * r = u /\ q % 2 = 1)
        m == IF up THEN (q + 1) * u ELSE q * u
    IN  IF n < 0 THEN -m ELSE m

FAdd(a, b) == FRound(a + b)

RECURSIVE FSumFrom(_, _, _)
\* sum(xs) as the builtin computes it: left to right, starting from 0
FSumFrom(xs, k, acc) ==
    IF k > Len(xs) THEN acc ELSE FSumFrom(xs, k + 1, FAdd(acc, xs[k]))

FSum(xs) == FSumFrom(xs, 1, 0)

\* ------------------------------------------------------------------------
\* models/path.py
\* ------------------------------------------------------------------------
CLOSED == "closed"
OPEN == "open"

\* exact square root; defined on the perfect squares the point pools yield
ISqrt(n) == CHOOSE r \in 0..n : r * r = n

\* distance(p1, p2) = math.hypot(p2.x - p1.x, p2.y - p1.y)
distance(p1, p2) ==
    ISqrt((p2[1] - p1[1]) * (p2[1] - p1[1]) + (p2[2] - p1[2]) * (p2[2] - p1[2]))

PathSegment(pts, id, type, ptype) ==
    [points |-> pts, element_id |-> id, element_type |-> type, path_type |-> ptype]

start_point(seg) == IF seg.points # <<>> THEN seg.points[1] ELSE <<0, 0>>

end_point(seg) == IF seg.points # <<>> THEN seg.points[Len(seg.points)] ELSE <<0, 0>>

\* PathSegment.length: 0 below two points, else the sum of the edge lengths
length(seg) ==
    IF Len(seg.points) < 2 THEN 0
    ELSE FSum([i \in 1..(Len(seg.points) - 1) |->
                   distance(seg.points[i], seg.points[i + 1])])

\* variant of reverse that loses the last point of the original
reverse_drop(seg) ==
    PathSegment([i \in 1..(Len(seg.points) - 1) |-> seg.points[Len(seg.points) - i]],
                seg.element_id, seg.element_type, seg.path_type)

\* variant of reverse that returns the segment as it is
reverse_same(seg) == seg

\* PathSegment.reverse: a copy with the points in reverse order
reverse(seg) ==
    PathSegment([i \in 1..Len(seg.points) |-> seg.points[Len(seg.points) + 1 - i]],
                seg.element_id, seg.element_type, seg.path_type)

\* OptimizationMetrics()
OptimizationMetrics ==
    [original_travel_distance |-> 0, optimized_travel_distance |-> 0,
     original_engrave_distance |-> 0, optimized_engrave_distance |-> 0,
     paths_reversed |-> 0]


\* ------------------------------------------------------------------------
\* State
\* ------------------------------------------------------------------------
VARIABLES
    \* PathOptimizer.optimize: its arguments, locals and result
    segments,                       \* the input list
    enable_direction_optimization,
    start_position,                 \* PathOptimizer.start_position
    remaining,                      \* the pool still to place
    optimized,                      \* the output list
    current_pos,
    metrics,
    nearest,                        \* last result of _find_nearest
    opt_pc,                         \* "idle" | "start" | "loop" | "done"
    picks,                          \* history: per selection, the input index taken and whether it was reversed
    \* generate_hatch_lines: its arguments, locals and result
    polygon,
    angle,
    spacing,
    alternate,
    y_min,
    y_max,
    y,                              \* the scan coordinate
    line_idx,
    hatch_segments,                 \* the list being returned
    hatch_pc,                       \* "start" | "scan" | "done"
    scanned,                        \* history: the scan coordinates visited
    \* PathExtractor and the shapes it is asked about
    shape_geometry,                 \* shape -> its current geometry
    _cache,                         \* cache key -> the cached list object
    lists,                          \* list objects in order of creation
    extract_runs,                   \* number of _extract calls made
    calls,                          \* number of calls and edits made
    last_call,                      \* the last call and what it returned
    requested,                      \* history: (shape, height) -> list returned since the last clear
    \* ExportGCode.save
    document,                       \* the layer elements in document order
    settings,                       \* MachineSettings
    _commands,                      \* GCodeGenerator._commands
    layers,                         \* load_layers: the Layer models
    elements,                       \* load_layers: layer_id -> element
    layer_idx,                      \* position of the for loop over layers
    active_jobs_,                   \* _process_layer: active_jobs
    job_idx,                        \* _process_layer: idx of enumerate
    total_metrics,
    output_file,                    \* content of the .nc file, NoFile if absent
    export_pc,                      \* "idle" | "layers" | "jobs" | "footer" | "done" | "failed"
    jobs_done,                      \* history: per emitting job, its ordered segments
    \* PathExtractor._extract: its arguments, locals and result
    superpath,                      \* the flattened subpaths of the element
    viewbox_height,
    subpath_idx,                    \* position of the for loop over superpath
    extracted,                      \* the list being returned
    extract_pc,                     \* "loop" | "done"
    kept,                           \* history: the subpath index behind each segment
    \* RasterProcessor._horizontal_scan / _vertical_scan
    pixels,                         \* the grayscale image, pixels[row][col]
    direction,                      \* job.params["direction"]
    scan_power_min,
    scan_power_max,
    scan_line,                      \* position of the for loop over rows or columns
    results,                        \* the list being returned
    raster_pc,                      \* "scan" | "done"
    emitted_from,                   \* history: the line index behind each result
    \* one call of a function: its arguments and what it returned
    fn_in,
    fn_out,
    \* save_layers / load_layers on one layer element
    elem_attrs,                     \* the element's attributes, name -> value
    layer_jobs,                     \* Layer.jobs of the layer model
    loaded,                         \* what load_layers last returned for it
    svg_pc,                         \* "edit" | "saved" | "loaded"
    \* Layer job management: one Layer and the calls made on it
    self_jobs,                      \* Layer.jobs, each job by its id
    next_id,                        \* number of ids handed out by uuid4 so far
    last_op,                        \* the last call: its name and index
    outcome,                        \* what the last call returned, or the error it raised
    jobs_before,                    \* history: Layer.jobs when the last call began
    live                            \* history: ids added and not removed

vars_opt ==
    <<segments, enable_direction_optimization, start_position, remaining,
      optimized, current_pos, metrics, nearest, opt_pc, picks>>

vars_hatch ==
    <<polygon, angle, spacing, alternate, y_min, y_max, y, line_idx,
      hatch_segments, hatch_pc, scanned>>

vars_cache ==
    <<shape_geometry, _cache, lists, extract_runs, calls, last_call, requested>>

vars_export ==
    <<document, settings, _commands, layers, elements, layer_idx, active_jobs_,
      job_idx, total_metrics, output_file, export_pc, jobs_done>>

vars_extract ==
    <<superpath, viewbox_height, subpath_idx, extracted, extract_pc, kept>>

vars_raster ==
    <<pixels, direction, scan_power_min, scan_power_max, scan_line, results,
      raster_pc, emitted_from>>

vars_call == <<fn_in, fn_out>>

vars_svg == <<elem_attrs, layer_jobs, loaded, svg_pc>>

\* the components added after the export run
vars_layer == <<self_jobs, next_id, last_op, outcome, jobs_before, live>>

vars_units == <<vars_extract, vars_raster, vars_call, vars_svg, vars_layer>>

vars == <<vars_opt, vars_hatch, vars_cache, vars_export, vars_units>>

EmptyMap == [k \in {} |-> 0]

NoFile == "absent"

\* the .nc file that an earlier run left behind
OldFile == "previous"

\* a component that the specification at hand does not run
OptimizerIdle ==
    /\ segments = <<>>
    /\ enable_direction_optimization = FALSE
    /\ start_position = <<0, 0>>
    /\ remaining = <<>>
    /\ optimized = <<>>
    /\ current_pos = <<0, 0>>
    /\ metrics = EmptyMap
    /\ nearest = EmptyMap
    /\ opt_pc = "idle"
    /\ picks = <<>>

HatchIdle ==
    /\ polygon = <<>>
    /\ angle = 0
    /\ spacing = 0
    /\ alternate = FALSE
    /\ y_min = 0
    /\ y_max = 0
    /\ y = 0
    /\ line_idx = 0
    /\ hatch_segments = <<>>
    /\ hatch_pc = "idle"
    /\ scanned = <<>>

CacheIdle ==
    /\ shape_geometry = EmptyMap
    /\ _cache = EmptyMap
    /\ lists = <<>>
    /\ extract_runs = 0
    /\ calls = 0
    /\ last_call = EmptyMap
    /\ requested = EmptyMap

ExportIdle ==
    /\ document = <<>>
    /\ settings = EmptyMap
    /\ _commands = <<>>
    /\ layers = <<>>
    /\ elements = EmptyMap
    /\ layer_idx = 0
    /\ active_jobs_ = <<>>
    /\ job_idx = 0
    /\ total_metrics = EmptyMap
    /\ output_file = NoFile
    /\ export_pc = "off"
    /\ jobs_done = <<>>

Uncalled == [fn |-> "none"]

\* what a call has produced so far
Pending == [status |-> "pending"]

Returned(v) == [status |-> "returned", value |-> v]

Raised(e) == [status |-> "raised", error |-> e]

ExtractIdle ==
    /\ superpath = <<>>
    /\ viewbox_height = 0
    /\ subpath_idx = 0
    /\ extracted = <<>>
    /\ extract_pc = "idle"
    /\ kept = <<>>

RasterIdle ==
    /\ pixels = <<>>
    /\ direction = "none"
    /\ scan_power_min = 0
    /\ scan_power_max = 0
    /\ scan_line = 0
    /\ results = <<>>
    /\ raster_pc = "idle"
    /\ emitted_from = <<>>

CallIdle ==
    /\ fn_in = Uncalled
    /\ fn_out = Pending

SvgIdle ==
    /\ elem_attrs = EmptyMap
    /\ layer_jobs = <<>>
    /\ loaded = <<>>
    /\ svg_pc = "idle"

LayerIdle ==
    /\ self_jobs = <<>>
    /\ next_id = 0
    /\ last_op = Uncalled
    /\ outcome = Pending
    /\ jobs_before = <<>>
    /\ live = {}

UnitsIdle == ExtractIdle /\ RasterIdle /\ CallIdle /\ SvgIdle /\ LayerIdle

\* ------------------------------------------------------------------------
\* geometry/optimizer.py
\* ------------------------------------------------------------------------
NoNearest == [idx |-> 0, reverse |-> FALSE, inf |-> TRUE, dist |-> 0]

\* variant of the comparison that keeps the farthest candidate
FartherThan(d, best) == best.inf \/ d > best.dist

\* "d < best_dist" where best_dist starts at float("inf")
CloserThan(d, best) == best.inf \/ d < best.dist

\* variant of ConsiderSegment comparing with "<=": the last of equal candidates wins
ConsiderSegmentLe(cur, segs, check_reverse, idx, best) ==
    LET seg == segs[idx]
        dist_start == distance(cur, start_point(seg))
        b1 == IF best.inf \/ dist_start <= best.dist
              THEN [idx |-> idx, reverse |-> FALSE, inf |-> FALSE, dist |-> dist_start]
              ELSE best
        dist_end == distance(cur, end_point(seg))
    IN  IF check_reverse /\ seg.path_type # CLOSED /\ (b1.inf \/ dist_end <= b1.dist)
        THEN [idx |-> idx, reverse |-> TRUE, inf |-> FALSE, dist |-> dist_end]
        ELSE b1

\* the loop body of _find_nearest for the segment at idx
ConsiderSegment(cur, segs, check_reverse, idx, best) ==
    LET seg == segs[idx]
        dist_start == distance(cur, start_point(seg))
        b1 == IF CloserThan(dist_start, best)
              THEN [idx |-> idx, reverse |-> FALSE, inf |-> FALSE, dist |-> dist_start]
              ELSE best
        dist_end == distance(cur, end_point(seg))
    IN  IF check_reverse /\ seg.path_type # CLOSED /\ CloserThan(dist_end, b1)
        THEN [idx |-> idx, reverse |-> TRUE, inf |-> FALSE, dist |-> dist_end]
        ELSE b1

RECURSIVE FindNearestFrom(_, _, _, _, _)
FindNearestFrom(cur, segs, check_reverse, idx, best) ==
    IF idx > Len(segs) THEN best
    ELSE FindNearestFrom(cur, segs, check_reverse, idx + 1,
                         ConsiderSegment(cur, segs, check_reverse, idx, best))

\* PathOptimizer._find_nearest; indices are 1-based here, best_idx = 0 there
\* for the first segment is idx 1 here
_find_nearest(cur, segs, check_reverse) ==
    FindNearestFrom(cur, segs, check_reverse, 1,
                    [idx |-> 1, reverse |-> FALSE, inf |-> TRUE, dist |-> 0])

\* PathOptimizer._travel_distance
_travel_distance(segs, start_pos) ==
    IF segs = <<>> THEN 0
    ELSE LET gaps == [i \in 1..Len(segs) |->
                         IF i = 1 THEN distance(start_pos, start_point(segs[1]))
                         ELSE distance(end_point(segs[i - 1]), start_point(segs[i]))]
         IN  FSumFrom(gaps, 2, gaps[1])

\* variant of RemoveAt that always takes the head of the list
RemoveHead(s, i) == [k \in 1..(Len(s) - 1) |-> s[k + 1]]

\* list.pop(i) leaves the list without its i-th element
RemoveAt(s, i) == [k \in 1..(Len(s) - 1) |-> IF k < i THEN s[k] ELSE s[k + 1]]

\* the input positions still in the pool, given the positions taken so far
RECURSIVE RemainingIds(_, _)
RemainingIds(n, taken) ==
    IF taken = <<>> THEN [i \in 1..n |-> i]
    ELSE LET before == RemainingIds(n, SubSeq(taken, 1, Len(taken) - 1))
         IN  SelectSeq(before, LAMBDA i : i # taken[Len(taken)].orig)

\* variant in which remaining is the input list itself: pop removes from it
PopFromInput(input, i) == RemoveAt(input, i)

\* remaining = segments.copy(): remaining.pop(...) takes the i-th input
\* segment out of the copy and leaves the input list as it is
PopFromCopy(input, i) == input

\* variant of reverse() that reverses the points of the segment in place
ReverseInPlace(seg) == [seg EXCEPT !.points = [k \in 1..Len(@) |-> @[Len(@) + 1 - k]]]

\* what segment.reverse() leaves of the segment it is called on: it builds
\* a new PathSegment from list(reversed(self.points))
ReverseAsCopy(seg) == seg

\* ---- inputs ----
SegmentPool ==
    { PathSegment(<< <<0, 0>>, <<12, 0>> >>, "a", "path", OPEN),
      PathSegment(<< <<12, 5>>, <<0, 5>> >>, "b", "path", OPEN),
      PathSegment(<< <<0, 5>>, <<12, 0>>, <<12, 5>> >>, "c", "path", OPEN),
      PathSegment(<< <<12, 0>>, <<12, 5>>, <<0, 5>>, <<12, 0>> >>, "d", "rect", CLOSED),
      PathSegment(<< <<12, 5>> >>, "e", "path", OPEN),
      PathSegment(<< <<0, 5>>, <<0, 0>> >>, "f", "line", OPEN),
      PathSegment(<< <<12, 5>>, <<0, 0>> >>, "g", "line", OPEN),
      PathSegment(<< <<0, 0>>, <<12, 5>>, <<12, 0>>, <<0, 5>>, <<0, 0>> >>, "h", "path", CLOSED) }

StartPositions == {<<0, 0>>, <<12, 5>>}

InitOptimizer ==
    /\ segments \in SeqUpTo(SegmentPool, MaxSegments)
    /\ enable_direction_optimization \in BOOLEAN
    /\ start_position \in StartPositions
    /\ remaining = <<>>
    /\ optimized = <<>>
    /\ current_pos = start_position
    /\ metrics = OptimizationMetrics
    /\ nearest = NoNearest
    /\ opt_pc = "start"
    /\ picks = <<>>
    /\ HatchIdle /\ CacheIdle /\ ExportIdle /\ UnitsIdle

\* optimize, lines 46-47: nothing to do for an empty list
OptimizeEmpty ==
    /\ opt_pc = "start"
    /\ segments = <<>>
    /\ optimized' = <<>>
    /\ metrics' = OptimizationMetrics
    /\ opt_pc' = "done"
    /\ UNCHANGED <<segments, enable_direction_optimization, start_position,
                   remaining, current_pos, nearest, picks>>
    /\ UNCHANGED <<vars_hatch, vars_cache, vars_export, vars_units>>

\* optimize, lines 49-57: the original metrics, the pool, the position
OptimizeBegin ==
    /\ opt_pc = "start"
    /\ segments # <<>>
    /\ metrics' = [OptimizationMetrics EXCEPT
                     !.original_engrave_distance =
                         FSum([i \in 1..Len(segments) |-> length(segments[i])]),
                     !.original_travel_distance =
                         _travel_distance(segments, start_position)]
    /\ optimized' = <<>>
    /\ remaining' = segments
    /\ current_pos' = start_position
    /\ opt_pc' = "loop"
    /\ UNCHANGED <<segments, enable_direction_optimization, start_position,
                   nearest, picks>>
    /\ UNCHANGED <<vars_hatch, vars_cache, vars_export, vars_units>>

\* optimize, lines 59-70: one turn of the while loop
OptimizeStep ==
    /\ opt_pc = "loop"
    /\ remaining # <<>>
    /\ LET found == _find_nearest(current_pos, remaining, enable_direction_optimization)
           popped == remaining[found.idx]
           rev == found.reverse /\ enable_direction_optimization
           segment == IF rev THEN reverse(popped) ELSE popped
       IN  /\ nearest' = found
           /\ remaining' = RemoveAt(remaining, found.idx)
           /\ metrics' = IF rev
                         THEN [metrics EXCEPT !.paths_reversed = @ + 1]
                         ELSE metrics
           /\ optimized' = Append(optimized, segment)
           /\ current_pos' = end_point(segment)
           /\ picks' = Append(picks,
                              [orig |-> RemainingIds(Len(segments), picks)[found.idx],
                               reverse |-> rev])
           /\ LET orig == RemainingIds(Len(segments), picks)[found.idx]
              IN  segments' =
                      PopFromCopy(IF rev
                                  THEN [segments EXCEPT ![orig] = ReverseAsCopy(@)]
                                  ELSE segments, orig)
    /\ UNCHANGED <<enable_direction_optimization, start_position, opt_pc>>
    /\ UNCHANGED <<vars_hatch, vars_cache, vars_export, vars_units>>

\* optimize, lines 72-77: the optimized metrics, the return
OptimizeFinish ==
    /\ opt_pc = "loop"
    /\ remaining = <<>>
    /\ metrics' = [metrics EXCEPT
                     !.optimized_engrave_distance =
                         FSum([i \in 1..Len(optimized) |-> length(optimized[i])]),
                     !.optimized_travel_distance =
                         _travel_distance(optimized, start_position)]
    /\ opt_pc' = "done"
    /\ UNCHANGED <<segments, enable_direction_optimization, start_position,
                   remaining, optimized, current_pos, nearest, picks>>
    /\ UNCHANGED <<vars_hatch, vars_cache, vars_export, vars_units>>

NextOptimizer == OptimizeEmpty \/ OptimizeBegin \/ OptimizeStep \/ OptimizeFinish

SpecOptimizer == InitOptimizer /\ [][NextOptimizer]_vars


\* ---- properties of the optimizer ----
Reversed(pts) == [i \in 1..Len(pts) |-> pts[Len(pts) + 1 - i]]

SameTags(a, b) ==
    /\ a.element_id = b.element_id
    /\ a.element_type = b.element_type
    /\ a.path_type = b.path_type

KeptOrReversed(out, in) ==
    /\ SameTags(out, in)
    /\ out.points = in.points \/ out.points = Reversed(in.points)

\* a segment up to the direction of its points
UpToReversal(seg) ==
    [tags |-> <<seg.element_id, seg.element_type, seg.path_type>>,
     points |-> {seg.points, Reversed(seg.points)}]

AllZero(m) ==
    /\ m.original_travel_distance = 0 /\ m.optimized_travel_distance = 0
    /\ m.original_engrave_distance = 0 /\ m.optimized_engrave_distance = 0
    /\ m.paths_reversed = 0

\* C5: optimize ends after exactly one selection per input segment and
\* returns a list of the same length holding every input segment exactly
\* once, kept or exactly reversed, with the same tags; while it runs the
\* pool and the output together hold as many segments as the input, and it
\* shrinks the pool by one at every selection; an empty input gives an empty list
\* and all-zero metrics.
C5_Permutation ==
    /\ opt_pc = "loop" => /\ Len(remaining) + Len(optimized) = Len(segments)
                          /\ Len(picks) = Len(optimized)
    /\ opt_pc = "done" =>
          /\ Len(optimized) = Len(segments)
          /\ Len(picks) = Len(segments)
          /\ \A k \in 1..Len(optimized) :
                /\ \E j \in 1..Len(segments) : KeptOrReversed(optimized[k], segments[j])
                /\ Cardinality({j \in 1..Len(optimized) :
                                   UpToReversal(optimized[j]) = UpToReversal(optimized[k])})
                   = Cardinality({j \in 1..Len(segments) :
                                     UpToReversal(segments[j]) = UpToReversal(optimized[k])})
          /\ segments = <<>> => optimized = <<>> /\ AllZero(metrics)

C5_Witness ==
    /\ opt_pc = "done"
    /\ Len(segments) = 3
    /\ picks[1].orig = 3
    /\ \E k \in 1..3 : picks[k].reverse /\ optimized[k] # segments[picks[k].orig]

\* the candidates _find_nearest weighs: every pool segment forward, and the
\* OPEN ones reversed when direction optimization is on
Candidates(cur, pool, dir_opt) ==
    {[idx |-> i, reverse |-> FALSE, dist |-> distance(cur, pool[i].points[1])] :
        i \in 1..Len(pool)}
    \cup
    {[idx |-> i, reverse |-> TRUE,
      dist |-> distance(cur, pool[i].points[Len(pool[i].points)])] :
        i \in {j \in 1..Len(pool) : dir_opt /\ pool[j].path_type = OPEN}}

\* pool order: by index, forward before reverse
Earlier(c, d) == c.idx < d.idx \/ (c.idx = d.idx /\ ~c.reverse /\ d.reverse)

FirstMinimum(c, cands) ==
    /\ c \in cands
    /\ \A d \in cands : c.dist <= d.dist /\ (d.dist = c.dist => (d = c \/ Earlier(c, d)))

\* C6: every selection takes from the pool the first candidate, in pool
\* order with forward before reverse, of minimum distance from the current
\* position; the segment is appended reversed exactly when the reverse
\* candidate won, the position moves to the end of the appended segment, the
\* reversal counter counts the reversed outputs, closed segments are never
\* reversed, nothing is reversed with direction optimization off, and the
\* first selection starts from the start position.
C6_Selection ==
    [][(opt_pc = "loop" /\ remaining # <<>>) =>
         LET c == [idx |-> nearest'.idx, reverse |-> nearest'.reverse,
                   dist |-> nearest'.dist]
             taken == remaining[c.idx]
             out == IF c.reverse
                    THEN [taken EXCEPT !.points = Reversed(taken.points)]
                    ELSE taken
         IN  /\ FirstMinimum(c, Candidates(current_pos, remaining,
                                           enable_direction_optimization))
             /\ optimized = <<>> => current_pos = start_position
             /\ optimized' = Append(optimized, out)
             /\ current_pos' = out.points[Len(out.points)]
             /\ Len(remaining') = Len(remaining) - 1
             /\ c.reverse => taken.path_type = OPEN /\ enable_direction_optimization
             /\ metrics'.paths_reversed =
                    metrics.paths_reversed + (IF c.reverse THEN 1 ELSE 0)
             /\ metrics'.paths_reversed =
                    Cardinality({k \in 1..Len(picks') : picks'[k].reverse})
    ]_vars_opt

\* a tie between a forward candidate and an earlier reverse candidate of
\* another segment, and a reversal that was chosen
C6_Witness ==
    /\ opt_pc = "loop"
    /\ Len(optimized) = 2
    /\ nearest.reverse
    /\ \E d \in Candidates(optimized[1].points[Len(optimized[1].points)],
                           <<segments[picks[2].orig]>> \o remaining,
                           enable_direction_optimization) :
           d.idx > 1 /\ d.dist = nearest.dist

\* exact sum of all edge lengths of a list of segments
RECURSIVE ExactLength(_, _)
ExactLength(pts, k) ==
    IF k >= Len(pts) THEN 0 ELSE distance(pts[k], pts[k + 1]) + ExactLength(pts, k + 1)

RECURSIVE ExactEngrave(_, _)
ExactEngrave(segs, k) ==
    IF k > Len(segs) THEN 0 ELSE ExactLength(segs[k].points, 1) + ExactEngrave(segs, k + 1)

\* C7 as stated: the two engrave distances of the metrics are equal.
C7_EngraveEqual ==
    opt_pc = "done" =>
        metrics.optimized_engrave_distance = metrics.original_engrave_distance

\* C7 amended: in exact arithmetic the sum of the segments' polyline lengths
\* is the same before and after, and the two metrics are equal (and equal to
\* that sum) whenever the sum is small enough for no addition to round.
C7_EngraveExact ==
    opt_pc = "done" =>
        /\ ExactEngrave(optimized, 1) = ExactEngrave(segments, 1)
        /\ ExactEngrave(segments, 1) < Pow2(MantBits) =>
              /\ metrics.original_engrave_distance = ExactEngrave(segments, 1)
              /\ metrics.optimized_engrave_distance = ExactEngrave(segments, 1)

C7_Witness ==
    /\ opt_pc = "done"
    /\ Len(segments) = 3
    /\ metrics.paths_reversed > 0
    /\ picks[1].orig # 1
    /\ ExactEngrave(segments, 1) > 0
    /\ ExactEngrave(segments, 1) < Pow2(MantBits)


\* ------------------------------------------------------------------------
\* geometry/hatching.py
\* Lengths are in half millimetres, so that the spacings 0.5, 1.0 and 2.0 mm
\* are the integers 1, 2 and 4.  The polygons have edges that are parallel to
\* an axis or at 45 degrees, so every intersection is an integer and the
\* scan coordinate is exact.  cos and sin of the multiples of 90 degrees are
\* taken as the exact 0, 1 and -1; math.cos and math.sin are off by less
\* than 2^-52 there, which can move a scanline that falls exactly on y_max
\* to just below it.
\* ------------------------------------------------------------------------
\* math.cos(math.radians(-a)), math.sin(math.radians(-a))
CosNeg(a) == CASE a = 0 -> 1 [] a = 90 -> 0 [] a = 180 -> -1 [] a = 270 -> 0

SinNeg(a) == CASE a = 0 -> 0 [] a = 90 -> -1 [] a = 180 -> 0 [] a = 270 -> 1

\* a / b for the exact quotients the polygons yield
ExactDiv(a, b) == CHOOSE q \in -Abs(a)..Abs(a) : q * b = a

_rotate(pt, cos_a, sin_a) == <<pt[1] * cos_a - pt[2] * sin_a, pt[1] * sin_a + pt[2] * cos_a>>

_unrotate(px, py, cos_a, sin_a) == <<px * cos_a + py * sin_a, -px * sin_a + py * cos_a>>

_build_edges(poly) == [i \in 1..Len(poly) |-> <<poly[i], poly[(i % Len(poly)) + 1]>>]

\* the x where the edge e meets the scanline at sy
EdgeCrossing(e, sy) ==
    e[1][1] + ExactDiv((sy - e[1][2]) * (e[2][1] - e[1][1]), e[2][2] - e[1][2])

\* variant of the straddle test that is closed at both ends
StraddlesClosed(e, sy) ==
    /\ e[1][2] # e[2][2]
    /\ (e[1][2] <= sy /\ sy <= e[2][2]) \/ (e[2][2] <= sy /\ sy <= e[1][2])

\* the half-open straddle test; horizontal edges are skipped
Straddles(e, sy) ==
    /\ e[1][2] # e[2][2]
    /\ (e[1][2] <= sy /\ sy < e[2][2]) \/ (e[2][2] <= sy /\ sy < e[1][2])

RECURSIVE IntersectionsFrom(_, _, _)
IntersectionsFrom(edges, sy, k) ==
    IF k > Len(edges) THEN <<>>
    ELSE (IF Straddles(edges[k], sy) THEN <<EdgeCrossing(edges[k], sy)>> ELSE <<>>)
         \o IntersectionsFrom(edges, sy, k + 1)

_scanline_intersections(edges, sy) == IntersectionsFrom(edges, sy, 1)

Rotated(poly, a) == [i \in 1..Len(poly) |-> _rotate(poly[i], CosNeg(a), SinNeg(a))]

MinY(pts) == CHOOSE v \in {pts[i][2] : i \in 1..Len(pts)} : \A i \in 1..Len(pts) : v <= pts[i][2]

MaxY(pts) == CHOOSE v \in {pts[i][2] : i \in 1..Len(pts)} : \A i \in 1..Len(pts) : v >= pts[i][2]

\* variant of HatchLine that reverses the pair order of an odd scanline but
\* not the point order inside each pair
HatchLinePairsOnly(edges, sy, idx, alt, cos_a, sin_a) ==
    LET xs == SortSeq(_scanline_intersections(edges, sy), LAMBDA a, b : a < b)
        n == Len(xs) \div 2
        asc == [k \in 1..n |-> <<xs[2 * k - 1], xs[2 * k]>>]
        flip == alt /\ idx % 2 = 1
        pairs == IF flip THEN [k \in 1..n |-> asc[n + 1 - k]] ELSE asc
    IN  [k \in 1..n |->
            LET p1 == _unrotate(pairs[k][1], sy, cos_a, sin_a)
                p2 == _unrotate(pairs[k][2], sy, cos_a, sin_a)
            IN  PathSegment(<<p1, p2>>, "hatch", "hatch", OPEN)]

\* variant of HatchLine that pairs the intersections in edge order, unsorted
HatchLineUnsorted(edges, sy, idx, alt, cos_a, sin_a) ==
    LET xs == _scanline_intersections(edges, sy)
        n == Len(xs) \div 2
        asc == [k \in 1..n |-> <<xs[2 * k - 1], xs[2 * k]>>]
        flip == alt /\ idx % 2 = 1
        pairs == IF flip THEN [k \in 1..n |-> asc[n + 1 - k]] ELSE asc
    IN  [k \in 1..n |->
            LET p1 == _unrotate(pairs[k][1], sy, cos_a, sin_a)
                p2 == _unrotate(pairs[k][2], sy, cos_a, sin_a)
            IN  PathSegment(IF flip THEN <<p2, p1>> ELSE <<p1, p2>>,
                            "hatch", "hatch", OPEN)]

\* generate_hatch_lines, lines 56-80: the segments of the scanline at sy
HatchLine(edges, sy, idx, alt, cos_a, sin_a) ==
    LET xs == SortSeq(_scanline_intersections(edges, sy), LAMBDA a, b : a < b)
        n == Len(xs) \div 2
        asc == [k \in 1..n |-> <<xs[2 * k - 1], xs[2 * k]>>]
        flip == alt /\ idx % 2 = 1
        pairs == IF flip THEN [k \in 1..n |-> asc[n + 1 - k]] ELSE asc
    IN  [k \in 1..n |->
            LET p1 == _unrotate(pairs[k][1], sy, cos_a, sin_a)
                p2 == _unrotate(pairs[k][2], sy, cos_a, sin_a)
            IN  PathSegment(IF flip THEN <<p2, p1>> ELSE <<p1, p2>>,
                            "hatch", "hatch", OPEN)]

\* variant of Degenerate that lets a zero spacing through
DegenerateNegativeOnly(poly, s) == Len(poly) < 3 \/ s < 0

\* generate_hatch_lines, line 36: the inputs that yield no hatching
Degenerate(poly, s) == Len(poly) < 3 \/ s <= 0

\* variant of FirstScanline that starts on the bottom of the polygon
FirstScanlineAtMin(ymin, s) == ymin

\* generate_hatch_lines, line 52: y = y_min + spacing
FirstScanline(ymin, s) == FAdd(ymin, s)

RECURSIVE HatchFrom(_, _, _, _, _, _, _, _)
\* the while loop of generate_hatch_lines from the scanline at sy on
HatchFrom(edges, sy, ymax, s, idx, alt, cos_a, sin_a) ==
    IF ~(sy < ymax) THEN <<>>
    ELSE HatchLine(edges, sy, idx, alt, cos_a, sin_a)
         \o HatchFrom(edges, FAdd(sy, s), ymax, s, idx + 1, alt, cos_a, sin_a)

\* generate_hatch_lines as one call
generate_hatch_lines(poly, a, s, alt) ==
    IF Degenerate(poly, s) THEN <<>>
    ELSE LET rot == Rotated(poly, a)
         IN  HatchFrom(_build_edges(rot), FirstScanline(MinY(rot), s), MaxY(rot), s, 0,
                       alt, CosNeg(a), SinNeg(a))

\* ---- inputs ----
Square10 == << <<0, 0>>, <<20, 0>>, <<20, 20>>, <<0, 20>> >>

\* vertex lists whose edges cross: two bowties
CrossingPolygons ==
    { << <<0, 0>>, <<20, 20>>, <<20, 0>>, <<0, 20>> >>,
      << <<0, 0>>, <<20, 0>>, <<0, 20>>, <<20, 20>> >> }

PolygonPool ==
    CrossingPolygons \cup
    { <<>>,
      << <<0, 0>>, <<20, 0>> >>,
      Square10,
      \* the square as an extracted closed path, the first point repeated
      << <<0, 0>>, <<20, 0>>, <<20, 20>>, <<0, 20>>, <<0, 0>> >>,
      \* a diamond
      << <<10, 0>>, <<20, 10>>, <<10, 20>>, <<0, 10>> >>,
      \* the square with a vertex in the middle of its right side
      << <<0, 0>>, <<20, 0>>, <<20, 10>>, <<20, 20>>, <<0, 20>> >>,
      \* a U: two spans on the scanlines through its arms
      << <<0, 0>>, <<12, 0>>, <<12, 12>>, <<8, 12>>, <<8, 4>>, <<4, 4>>, <<4, 12>>, <<0, 12>> >> }

Angles == {0, 90}

Spacings == {-2, 0, 1, 2, 3, 4}

InitHatch ==
    /\ polygon \in PolygonPool
    /\ angle \in Angles
    /\ spacing \in Spacings
    /\ alternate \in BOOLEAN
    /\ y_min = 0
    /\ y_max = 0
    /\ y = 0
    /\ line_idx = 0
    /\ hatch_segments = <<>>
    /\ hatch_pc = "start"
    /\ scanned = <<>>
    /\ OptimizerIdle /\ CacheIdle /\ ExportIdle /\ UnitsIdle

\* generate_hatch_lines, lines 36-37: degenerate input, return []
HatchReject ==
    /\ hatch_pc = "start"
    /\ Degenerate(polygon, spacing)
    /\ hatch_segments' = <<>>
    /\ hatch_pc' = "done"
    /\ UNCHANGED <<polygon, angle, spacing, alternate, y_min, y_max, y, line_idx, scanned>>
    /\ UNCHANGED <<vars_opt, vars_cache, vars_export, vars_units>>

\* generate_hatch_lines, lines 39-53: rotate, find the extent, set up the scan
HatchBegin ==
    /\ hatch_pc = "start"
    /\ ~Degenerate(polygon, spacing)
    /\ LET rot == Rotated(polygon, angle)
       IN  /\ y_min' = MinY(rot)
           /\ y_max' = MaxY(rot)
           /\ y' = FirstScanline(MinY(rot), spacing)
    /\ line_idx' = 0
    /\ hatch_segments' = <<>>
    /\ hatch_pc' = "scan"
    /\ UNCHANGED <<polygon, angle, spacing, alternate, scanned>>
    /\ UNCHANGED <<vars_opt, vars_cache, vars_export, vars_units>>

\* generate_hatch_lines, lines 55-80: one turn of the while loop
HatchScanline ==
    /\ hatch_pc = "scan"
    /\ y < y_max
    /\ hatch_segments' = hatch_segments \o
           HatchLine(_build_edges(Rotated(polygon, angle)), y, line_idx, alternate,
                     CosNeg(angle), SinNeg(angle))
    /\ y' = FAdd(y, spacing)
    /\ line_idx' = line_idx + 1
    /\ scanned' = Append(scanned, y)
    /\ UNCHANGED <<polygon, angle, spacing, alternate, y_min, y_max, hatch_pc>>
    /\ UNCHANGED <<vars_opt, vars_cache, vars_export, vars_units>>

\* generate_hatch_lines, lines 55 and 82: the loop ends, return segments
HatchReturn ==
    /\ hatch_pc = "scan"
    /\ ~(y < y_max)
    /\ hatch_pc' = "done"
    /\ UNCHANGED <<polygon, angle, spacing, alternate, y_min, y_max, y, line_idx,
                   hatch_segments, scanned>>
    /\ UNCHANGED <<vars_opt, vars_cache, vars_export, vars_units>>

NextHatch == HatchReject \/ HatchBegin \/ HatchScanline \/ HatchReturn

SpecHatch == InitHatch /\ [][NextHatch]_vars

\* the rotated-frame y of a point of the original frame
ScanY(pt) == _rotate(pt, CosNeg(angle), SinNeg(angle))[2]

ShapeRefs == {1, 2, 3}

Geometries == {"g1", "g2", "malformed"}

Heights == {100, 200}

\* element.get("id", "")
element_id(s) == IF s = 1 THEN "rect1" ELSE ""

\* the text an f-string gives for the float
FormatFloat(h) == CASE h = 100 -> "100.0" [] h = 200 -> "200.0"

\* extract_from_element, line 54
cache_key(eid, h) == eid \o "_" \o FormatFloat(h)

\* variant of CacheHit that never finds an entry
CacheHitNever(key) == FALSE

\* extract_from_element, line 55
CacheHit(key) == key \in DOMAIN _cache

NoCall == [op |-> "none", shape |-> 0, height |-> 0, result |-> 0, ran |-> FALSE, raised |-> FALSE]

InitCache ==
    /\ shape_geometry = [s \in ShapeRefs |-> "g1"]
    /\ _cache = EmptyMap
    /\ lists = <<>>
    /\ extract_runs = 0
    /\ calls = 0
    /\ last_call = NoCall
    /\ requested = EmptyMap
    /\ OptimizerIdle /\ HatchIdle /\ ExportIdle /\ UnitsIdle

\* extract_from_element, lines 53-60
extract_from_element ==
    /\ calls < MaxCalls
    /\ \E s \in ShapeRefs, h \in Heights :
          LET key == cache_key(element_id(s), h)
          IN  IF CacheHit(key)
              THEN \* the cached list is returned
                   /\ last_call' = [op |-> "extract", shape |-> s, height |-> h,
                                    result |-> _cache[key], ran |-> FALSE, raised |-> FALSE]
                   /\ requested' = (<<s, h>> :> _cache[key]) @@ requested
                   /\ UNCHANGED <<_cache, lists, extract_runs>>
              ELSE IF shape_geometry[s] = "malformed"
              THEN \* _extract raises, nothing is stored
                   /\ last_call' = [op |-> "extract", shape |-> s, height |-> h,
                                    result |-> 0, ran |-> TRUE, raised |-> TRUE]
                   /\ extract_runs' = extract_runs + 1
                   /\ UNCHANGED <<_cache, lists, requested>>
              ELSE \* _extract builds a new list, which is stored and returned
                   /\ lists' = Append(lists, [shape |-> s, geometry |-> shape_geometry[s],
                                              height |-> h])
                   /\ _cache' = (key :> Len(lists) + 1) @@ _cache
                   /\ extract_runs' = extract_runs + 1
                   /\ last_call' = [op |-> "extract", shape |-> s, height |-> h,
                                    result |-> Len(lists) + 1, ran |-> TRUE, raised |-> FALSE]
                   /\ requested' = (<<s, h>> :> Len(lists) + 1) @@ requested
    /\ calls' = calls + 1
    /\ UNCHANGED shape_geometry
    /\ UNCHANGED <<vars_opt, vars_hatch, vars_export, vars_units>>

\* clear_cache, lines 62-64
clear_cache ==
    /\ calls < MaxCalls
    /\ _cache' = EmptyMap
    /\ requested' = EmptyMap
    /\ last_call' = [NoCall EXCEPT !.op = "clear"]
    /\ calls' = calls + 1
    /\ UNCHANGED <<shape_geometry, lists, extract_runs>>
    /\ UNCHANGED <<vars_opt, vars_hatch, vars_export, vars_units>>

\* the user edits a shape between two calls; the extractor is not told
EditGeometry ==
    /\ calls < MaxCalls
    /\ \E s \in ShapeRefs, g \in Geometries :
          /\ g # shape_geometry[s]
          /\ shape_geometry' = [shape_geometry EXCEPT ![s] = g]
          /\ last_call' = [NoCall EXCEPT !.op = "edit", !.shape = s]
    /\ calls' = calls + 1
    /\ UNCHANGED <<_cache, lists, extract_runs, requested>>
    /\ UNCHANGED <<vars_opt, vars_hatch, vars_export, vars_units>>

NextCache == extract_from_element \/ clear_cache \/ EditGeometry

SpecCache == InitCache /\ [][NextCache]_vars

\* C10: a request for a (shape, height) pair already requested since the
\* last clear_cache returns the very list object of the earlier request and
\* runs no extraction, also after an edit of the shape; only clear_cache
\* removes or replaces an entry, and the request after it extracts again.
C10_CacheStable ==
    [][/\ (/\ calls' = calls + 1
           /\ last_call'.op = "extract"
           /\ <<last_call'.shape, last_call'.height>> \in DOMAIN requested) =>
              /\ last_call'.result = requested[<<last_call'.shape, last_call'.height>>]
              /\ ~last_call'.ran
              /\ ~last_call'.raised
              /\ extract_runs' = extract_runs
              /\ lists' = lists
       /\ (\E k \in DOMAIN _cache : k \notin DOMAIN _cache' \/ _cache'[k] # _cache[k]) =>
              /\ last_call'.op = "clear"
              /\ _cache' = EmptyMap
       /\ (calls' = calls + 1 /\ last_call.op = "clear" /\ last_call'.op = "extract") =>
              /\ last_call'.ran
              /\ extract_runs' = extract_runs + 1
      ]_vars_cache

\* a hit on a list built before the shape was edited
C10_Witness ==
    /\ last_call.op = "extract"
    /\ ~last_call.ran
    /\ <<last_call.shape, last_call.height>> \in DOMAIN requested
    /\ lists[last_call.result].shape = last_call.shape
    /\ lists[last_call.result].geometry # shape_geometry[last_call.shape]
    /\ extract_runs = 1

\* ------------------------------------------------------------------------
\* models/machine.py, models/layer.py, common.py, persistence/svg_io.py
\* ------------------------------------------------------------------------
max_power == 1000

max_speed == 6000

Min(a, b) == IF a < b THEN a ELSE b

Max(a, b) == IF a > b THEN a ELSE b

clamp_power(value) == Max(0, Min(value, max_power))

clamp_speed(value) == Max(1, Min(value, max_speed))

\* variant of active_jobs that keeps every job
active_jobs_all(jobs) == jobs

\* Layer.active_jobs
active_jobs(jobs) == SelectSeq(jobs, LAMBDA j : j.active)

\* the element above element k of doc: the layer before it when it is
\* nested in that one, else the root (0)
Parent(doc, k) == IF doc[k].nested /\ k > 1 THEN k - 1 ELSE 0

RECURSIVE is_visible(_, _)
\* common.is_visible: no display:none on the element or above it
is_visible(doc, k) ==
    IF k = 0 THEN TRUE
    ELSE ~doc[k].hidden /\ is_visible(doc, Parent(doc, k))

\* load_layers: one Layer per layer element, in document order
LoadedLayers(doc) ==
    [k \in 1..Len(doc) |->
        [layer_id |-> doc[k].id, label |-> doc[k].label,
         visible |-> is_visible(doc, k), jobs |-> doc[k].jobs]]

\* load_layers: layer_id -> element, a later element replacing an earlier one
LoadedElements(doc) ==
    [i \in {doc[k].id : k \in 1..Len(doc)} |->
        CHOOSE k \in 1..Len(doc) :
            /\ doc[k].id = i
            /\ \A m \in 1..Len(doc) : doc[m].id = i => m <= k]

RECURSIVE Flatten(_)
\* list.extend over a list of lists
Flatten(ss) == IF ss = <<>> THEN <<>> ELSE Head(ss) \o Flatten(Tail(ss))

\* get_visible_shapes, then the cached extraction of each shape
_extract_segments(elem) ==
    Flatten([i \in 1..Len(elem.shapes) |->
                IF elem.shapes[i].visible THEN elem.shapes[i].segments ELSE <<>>])

\* extract_from_element raises on one of the visible shapes; nothing in
\* _extract_segments or above it catches
ExtractRaises(elem) ==
    \E i \in 1..Len(elem.shapes) : elem.shapes[i].visible /\ elem.shapes[i].malformed

\* RasterProcessor._decode_image: None without href and when Image.open
\* raises, else the image
_decode_image(img) == IF img.source \in {"missing", "unidentified"} THEN "None" ELSE "image"

\* Image.open reads the header only; the pixel data is decoded by
\* img.convert("L"), outside every try, which raises on data cut short
ConvertRaises(img) == _decode_image(img) # "None" /\ img.source = "truncated"

\* RasterProcessor.process_image_element when it returns
process_image_element(img) == IF _decode_image(img) = "None" THEN <<>> ELSE img.lines

\* the images before the first one on which process_image_element raises
RECURSIVE ImagesBeforeRaise(_)
ImagesBeforeRaise(images) ==
    IF images = <<>> \/ ConvertRaises(Head(images)) THEN <<>>
    ELSE <<Head(images)>> \o ImagesBeforeRaise(Tail(images))

RasterRaises(elem) == \E i \in 1..Len(elem.images) : ConvertRaises(elem.images[i])

\* get_image_elements, then RasterProcessor.process_image_element of each
\* up to the first that raises
ImageScanlines(elem) ==
    LET images == ImagesBeforeRaise(elem.images)
    IN  [i \in 1..Len(images) |-> process_image_element(images[i])]

\* ------------------------------------------------------------------------
\* geometry/optimizer.py: optimize as one call
\* ------------------------------------------------------------------------
RECURSIVE OptimizeLoop(_, _, _, _, _)
OptimizeLoop(pool, cur, check_reverse, out, nrev) ==
    IF pool = <<>> THEN [segments |-> out, paths_reversed |-> nrev]
    ELSE LET found == _find_nearest(cur, pool, check_reverse)
             rev == found.reverse /\ check_reverse
             segment == IF rev THEN reverse(pool[found.idx]) ELSE pool[found.idx]
         IN  OptimizeLoop(RemoveAt(pool, found.idx), end_point(segment), check_reverse,
                          Append(out, segment), IF rev THEN nrev + 1 ELSE nrev)

optimize(segs, check_reverse, start_pos) ==
    IF segs = <<>> THEN [segments |-> <<>>, metrics |-> OptimizationMetrics]
    ELSE LET res == OptimizeLoop(segs, start_pos, check_reverse, <<>>, 0)
         IN  [segments |-> res.segments,
              metrics |->
                 [original_travel_distance |-> _travel_distance(segs, start_pos),
                  optimized_travel_distance |-> _travel_distance(res.segments, start_pos),
                  original_engrave_distance |->
                      FSum([i \in 1..Len(segs) |-> length(segs[i])]),
                  optimized_engrave_distance |->
                      FSum([i \in 1..Len(res.segments) |-> length(res.segments[i])]),
                  paths_reversed |-> res.paths_reversed]]

\* ExportGCode._optimize_segments: the list to emit and the new totals
_optimize_segments(segs, st, total) ==
    IF ~st.path_optimization THEN [segments |-> segs, total_metrics |-> total]
    ELSE LET res == optimize(segs, st.direction_optimization, <<0, 0>>)
         IN  [segments |-> res.segments,
              total_metrics |->
                 [total EXCEPT
                    !.original_travel_distance =
                        FAdd(@, res.metrics.original_travel_distance),
                    !.optimized_travel_distance =
                        FAdd(@, res.metrics.optimized_travel_distance),
                    !.paths_reversed = @ + res.metrics.paths_reversed]]

\* ------------------------------------------------------------------------
\* gcode/generator.py: GCodeGenerator, after section 4.5 of the specification.
\* A command is a record; layer and job say which job of which layer had it
\* emitted ("" outside jobs).
\* ------------------------------------------------------------------------
Command(op) ==
    [op |-> op, point |-> <<>>, power |-> 0, speed |-> 0, mode |-> "",
     layer |-> "", job |-> ""]

reset == <<>>

add_header(cmds) == Append(cmds, Command("header"))

add_footer(cmds) == Append(cmds, Command("footer"))

add_comment(cmds) == Append(cmds, Command("comment"))

add_shape_comment(cmds) == Append(cmds, Command("comment"))

\* move_to(point, is_cutting=False)
move_to_rapid(cmds, pt) == Append(cmds, [Command("rapid") EXCEPT !.point = pt])

\* move_to(point, is_cutting=True, speed, power)
move_to_cutting(cmds, pt, spd, pw) ==
    Append(cmds, [Command("cut") EXCEPT !.point = pt, !.speed = spd,
                                        !.power = clamp_power(pw)])

enable_laser(cmds, mode, pw) ==
    Append(cmds, [Command("enable") EXCEPT !.mode = mode, !.power = clamp_power(pw)])

disable_laser(cmds) == Append(cmds, Command("disable"))

RECURSIVE CutMoves(_, _, _, _, _)
\* cutting moves to the points k.. of pts, the i-th at the power powers[i]
CutMoves(cmds, pts, powers, spd, k) ==
    IF k > Len(pts) THEN cmds
    ELSE CutMoves(move_to_cutting(cmds, pts[k], spd, powers[k]), pts, powers, spd, k + 1)

\* one segment of a cut or fill job: rapid, enable, cuts, disable
JobSegment(cmds, seg, job) ==
    disable_laser(
        CutMoves(enable_laser(move_to_rapid(cmds, start_point(seg)),
                              job.laser_mode, job.power_max),
                 seg.points, [i \in 1..Len(seg.points) |-> job.power_max],
                 clamp_speed(job.speed), 2))

RECURSIVE JobPass(_, _, _, _)
JobPass(cmds, segs, job, k) ==
    IF k > Len(segs) THEN cmds
    ELSE JobPass(JobSegment(cmds, segs[k], job), segs, job, k + 1)

RECURSIVE JobPasses(_, _, _, _)
JobPasses(cmds, segs, job, pass) ==
    IF pass > job.passes THEN cmds
    ELSE JobPasses(JobPass(cmds, segs, job, 1), segs, job, pass + 1)

\* add_job(segments, job, job_index): every pass, every segment in order
add_job(cmds, segs, job) == JobPasses(cmds, segs, job, 1)

\* the commands from position k on, marked as those of job jid of layer lid
Tagged(cmds, k, lid, jid) ==
    [i \in 1..Len(cmds) |->
        IF i < k THEN cmds[i] ELSE [cmds[i] EXCEPT !.layer = lid, !.job = jid]]

\* ------------------------------------------------------------------------
\* export_layers.py: the raster job's own emission
\* ------------------------------------------------------------------------
\* variant of RasterLine that leaves the laser on
RasterLineNoDisable(cmds, line, job, spd) ==
    CutMoves(enable_laser(move_to_rapid(add_shape_comment(cmds),
                                        start_point(line.segment)),
                          job.laser_mode, line.power_list[1]),
             line.segment.points, line.power_list, spd, 2)

\* _process_raster_job, lines 262-275: one scanline
RasterLine(cmds, line, job, spd) ==
    disable_laser(
        CutMoves(enable_laser(move_to_rapid(add_shape_comment(cmds),
                                            start_point(line.segment)),
                              job.laser_mode, line.power_list[1]),
                 line.segment.points, line.power_list, spd, 2))

RECURSIVE RasterLines(_, _, _, _, _)
\* _process_raster_job, lines 258-275: the scanlines k.. of the images
RasterLines(cmds, scanlines, job, spd, k) ==
    IF k > Len(scanlines) THEN cmds
    ELSE RasterLines(RasterLine(cmds, scanlines[k], job, spd), scanlines, job, spd, k + 1)

\* ------------------------------------------------------------------------
\* export_layers.py: ExportGCode.save
\* ------------------------------------------------------------------------
\* ---- inputs ----
Rect ==
    PathSegment(<< <<0, 0>>, <<12, 0>>, <<12, 10>>, <<0, 10>>, <<0, 0>> >>,
                "rect1", "rect", CLOSED)

LineA == PathSegment(<< <<12, 5>>, <<12, 0>> >>, "line1", "line", OPEN)

LineB == PathSegment(<< <<0, 5>>, <<0, 0>> >>, "line2", "line", OPEN)

ShapesMixed ==
    << [visible |-> TRUE, malformed |-> FALSE, segments |-> <<LineA>>],
       [visible |-> FALSE, malformed |-> FALSE, segments |-> <<LineB>>],
       [visible |-> TRUE, malformed |-> FALSE, segments |-> <<Rect>>] >>

ShapesOpen == << [visible |-> TRUE, malformed |-> FALSE, segments |-> <<LineA>>] >>

\* a shape whose transform or path data makes the extraction raise, between
\* two sound shapes; a hidden one like it is never extracted
ShapesBroken ==
    << [visible |-> TRUE, malformed |-> FALSE, segments |-> <<LineA>>],
       [visible |-> TRUE, malformed |-> TRUE, segments |-> <<>>],
       [visible |-> FALSE, malformed |-> TRUE, segments |-> <<>>],
       [visible |-> TRUE, malformed |-> FALSE, segments |-> <<LineB>>] >>

\* an open polyline of four points: three sides of the rectangle
Bracket ==
    PathSegment(<< <<0, 0>>, <<12, 0>>, <<12, 10>>, <<0, 10>> >>, "path1", "path", OPEN)

ShapesBracket == << [visible |-> TRUE, malformed |-> FALSE, segments |-> <<Bracket>>] >>

\* a layer whose only shape is hidden
ShapesHidden == << [visible |-> FALSE, malformed |-> FALSE, segments |-> <<LineB>>] >>

\* one image with two scanlines, the second traversed backwards
ImagesTwoLines ==
    << [source |-> "ok", lines |->
        << [segment |-> PathSegment(<< <<0, 0>>, <<6, 0>>, <<12, 0>> >>,
                                    "image1", "raster", OPEN),
            power_list |-> <<0, 600, 300>>],
           [segment |-> PathSegment(<< <<12, 5>>, <<0, 5>> >>, "image1", "raster", OPEN),
            power_list |-> <<900, 100>>] >>] >>

\* one image all of whose lines are background
ImagesBlank == << [source |-> "ok", lines |-> <<>>] >>

\* an image without href and one whose data Image.open cannot identify
ImagesUnreadable ==
    << [source |-> "missing", lines |-> <<>>],
       [source |-> "unidentified", lines |-> <<>>] >>

\* a sound image, then one that Image.open identifies by its header but
\* whose pixel data is cut short
ImagesTruncated ==
    ImagesTwoLines \o << [source |-> "truncated", lines |-> <<>>] >>

NewJob(id, type, active, passes, mode) ==
    [id |-> id, type |-> type, active |-> active, passes |-> passes,
     speed |-> 800, power_min |-> 0, power_max |-> 600, laser_mode |-> mode,
     params |-> [angle |-> 0, spacing |-> 5, alternate |-> TRUE]]

LayerPool ==
    { [label |-> "mixed", hidden |-> FALSE, nested |-> FALSE,
       jobs |-> << NewJob("j1", "cut", FALSE, 1, "M3"), NewJob("j2", "fill", TRUE, 2, "M3"),
                   NewJob("j3", "cut", TRUE, 2, "M4") >>,
       shapes |-> ShapesMixed, images |-> <<>>],
      [label |-> "photo", hidden |-> FALSE, nested |-> FALSE,
       jobs |-> << NewJob("j1", "raster", TRUE, 2, "M4"), NewJob("j2", "cut", TRUE, 1, "M3") >>,
       shapes |-> ShapesOpen, images |-> ImagesTwoLines],
      [label |-> "hidden", hidden |-> TRUE, nested |-> FALSE,
       jobs |-> << NewJob("j1", "cut", TRUE, 1, "M3") >>,
       shapes |-> ShapesMixed, images |-> <<>>],
      [label |-> "sub", hidden |-> FALSE, nested |-> TRUE,
       jobs |-> << NewJob("j1", "cut", TRUE, 1, "M3"), NewJob("j2", "raster", TRUE, 1, "M3") >>,
       shapes |-> ShapesOpen, images |-> ImagesTwoLines],
      [label |-> "nojobs", hidden |-> FALSE, nested |-> FALSE,
       jobs |-> <<>>, shapes |-> ShapesMixed, images |-> <<>>],
      [label |-> "inactive", hidden |-> FALSE, nested |-> FALSE,
       jobs |-> << NewJob("j1", "cut", FALSE, 1, "M3") >>,
       shapes |-> ShapesMixed, images |-> <<>>],
      [label |-> "bare", hidden |-> FALSE, nested |-> FALSE,
       jobs |-> << NewJob("j1", "fill", TRUE, 1, "M3"), NewJob("j2", "raster", TRUE, 1, "M3"),
                   NewJob("j3", "raster", TRUE, 1, "M3"), NewJob("j4", "cut", TRUE, 1, "M3") >>,
       shapes |-> ShapesOpen, images |-> ImagesBlank],
      [label |-> "badshape", hidden |-> FALSE, nested |-> FALSE,
       jobs |-> << NewJob("j1", "raster", TRUE, 1, "M4"), NewJob("j2", "cut", TRUE, 1, "M3") >>,
       shapes |-> ShapesBroken, images |-> ImagesTwoLines],
      [label |-> "badimage", hidden |-> FALSE, nested |-> FALSE,
       jobs |-> << NewJob("j1", "raster", TRUE, 1, "M4"), NewJob("j2", "cut", TRUE, 1, "M3") >>,
       shapes |-> ShapesOpen, images |-> ImagesUnreadable],
      [label |-> "cutshort", hidden |-> FALSE, nested |-> FALSE,
       jobs |-> << NewJob("j1", "raster", TRUE, 1, "M4"), NewJob("j2", "cut", TRUE, 1, "M3") >>,
       shapes |-> ShapesOpen, images |-> ImagesTruncated],
      [label |-> "bracket", hidden |-> FALSE, nested |-> FALSE,
       jobs |-> << NewJob("j1", "fill", TRUE, 1, "M3"), NewJob("j2", "cut", TRUE, 1, "M3") >>,
       shapes |-> ShapesBracket, images |-> <<>>],
      [label |-> "empty", hidden |-> FALSE, nested |-> FALSE,
       jobs |-> << NewJob("j1", "fill", TRUE, 1, "M3"), NewJob("j2", "cut", TRUE, 1, "M3") >>,
       shapes |-> ShapesHidden, images |-> <<>>] }

\* the id attribute of the k-th layer element; Inkscape gives each element
\* an id of its own
LayerIds == <<"layer1", "layer2", "layer3", "layer4">>

Documents ==
    { [k \in 1..Len(ts) |->
          [id |-> LayerIds[k], label |-> ts[k].label, hidden |-> ts[k].hidden,
           nested |-> ts[k].nested, jobs |-> ts[k].jobs, shapes |-> ts[k].shapes,
           images |-> ts[k].images]] : ts \in SeqUpTo(LayerPool, MaxLayers) }

Init ==
    /\ document \in Documents
    /\ settings \in [path_optimization : BOOLEAN, direction_optimization : BOOLEAN]
    /\ _commands = <<>>
    /\ layers = <<>>
    /\ elements = EmptyMap
    /\ layer_idx = 0
    /\ active_jobs_ = <<>>
    /\ job_idx = 0
    /\ total_metrics = OptimizationMetrics
    /\ output_file \in {NoFile, OldFile}
    /\ export_pc = "idle"
    /\ jobs_done = <<>>
    /\ OptimizerIdle /\ HatchIdle /\ CacheIdle /\ UnitsIdle

\* what the loops of save and _process_layer are looking at
CurLayer == layers[layer_idx]

CurElem == document[elements[CurLayer.layer_id]]

CurJob == active_jobs_[job_idx + 1]

\* a cut or fill job's segments as emitted: each point at the job's power
FixedPowerLines(segs, job) ==
    [i \in 1..Len(segs) |->
        [points |-> segs[i].points,
         power_list |-> [n \in 1..Len(segs[i].points) |-> job.power_max]]]

\* save, lines 70-77: reset, header, load_layers
SaveBegin ==
    /\ export_pc = "idle"
    /\ _commands' = add_header(reset)
    /\ layers' = LoadedLayers(document)
    /\ elements' = LoadedElements(document)
    /\ total_metrics' = OptimizationMetrics
    /\ layer_idx' = 1
    /\ export_pc' = "layers"
    /\ UNCHANGED <<document, settings, active_jobs_, job_idx, output_file, jobs_done>>
    /\ UNCHANGED <<vars_opt, vars_hatch, vars_cache, vars_units>>

\* save, lines 79-84: a layer without element, not visible or without jobs
SkipLayer ==
    /\ export_pc = "layers"
    /\ layer_idx <= Len(layers)
    /\ \/ CurLayer.layer_id \notin DOMAIN elements
       \/ ~is_visible(document, elements[CurLayer.layer_id])
       \/ CurLayer.jobs = <<>>
    /\ layer_idx' = layer_idx + 1
    /\ UNCHANGED <<document, settings, _commands, layers, elements, active_jobs_,
                   job_idx, total_metrics, output_file, export_pc, jobs_done>>
    /\ UNCHANGED <<vars_opt, vars_hatch, vars_cache, vars_units>>

\* save, line 86, and _process_layer, lines 133-137: enter the layer
ProcessLayerBegin ==
    /\ export_pc = "layers"
    /\ layer_idx <= Len(layers)
    /\ CurLayer.layer_id \in DOMAIN elements
    /\ is_visible(document, elements[CurLayer.layer_id])
    /\ CurLayer.jobs # <<>>
    /\ active_jobs_' = active_jobs(CurLayer.jobs)
    /\ job_idx' = 0
    /\ export_pc' = "jobs"
    /\ UNCHANGED <<document, settings, _commands, layers, elements, layer_idx,
                   total_metrics, output_file, jobs_done>>
    /\ UNCHANGED <<vars_opt, vars_hatch, vars_cache, vars_units>>

\* variant of ProcessLayerEnd that writes the file after every layer
ProcessLayerEndWrite ==
    /\ export_pc = "jobs"
    /\ job_idx = Len(active_jobs_)
    /\ output_file' = _commands
    /\ layer_idx' = layer_idx + 1
    /\ export_pc' = "layers"
    /\ UNCHANGED <<document, settings, _commands, layers, elements, active_jobs_,
                   job_idx, total_metrics, jobs_done>>
    /\ UNCHANGED <<vars_opt, vars_hatch, vars_cache, vars_units>>

\* variant of ProcessLayerEnd with add_footer inside the loop over layers
ProcessLayerEndFooter ==
    /\ export_pc = "jobs"
    /\ job_idx = Len(active_jobs_)
    /\ _commands' = add_footer(_commands)
    /\ layer_idx' = layer_idx + 1
    /\ export_pc' = "layers"
    /\ UNCHANGED <<document, settings, layers, elements, active_jobs_, job_idx,
                   total_metrics, output_file, jobs_done>>
    /\ UNCHANGED <<vars_opt, vars_hatch, vars_cache, vars_units>>

\* _process_layer, lines 136-149: no active job is left, on to the next layer
ProcessLayerEnd ==
    /\ export_pc = "jobs"
    /\ job_idx = Len(active_jobs_)
    /\ layer_idx' = layer_idx + 1
    /\ export_pc' = "layers"
    /\ UNCHANGED <<document, settings, _commands, layers, elements, active_jobs_,
                   job_idx, total_metrics, output_file, jobs_done>>
    /\ UNCHANGED <<vars_opt, vars_hatch, vars_cache, vars_units>>

\* _process_cut_job; an exception of the extraction leaves save
ProcessCutJob ==
    /\ export_pc = "jobs"
    /\ job_idx < Len(active_jobs_)
    /\ CurJob.type = "cut"
    /\ IF ExtractRaises(CurElem)
       THEN /\ export_pc' = "failed"
            /\ UNCHANGED <<_commands, total_metrics, jobs_done, job_idx>>
       ELSE /\ LET segs == _extract_segments(CurElem)
                   res == _optimize_segments(segs, settings, total_metrics)
               IN  IF segs = <<>>
                   THEN UNCHANGED <<_commands, total_metrics, jobs_done>>
                   ELSE /\ _commands' =
                              Tagged(add_job(add_comment(_commands), res.segments, CurJob),
                                     Len(_commands) + 1, CurLayer.layer_id, CurJob.id)
                        /\ total_metrics' = res.total_metrics
                        /\ jobs_done' = Append(jobs_done,
                                               [layer |-> CurLayer.layer_id, job |-> CurJob,
                                                lines |-> FixedPowerLines(res.segments, CurJob)])
            /\ job_idx' = job_idx + 1
            /\ UNCHANGED export_pc
    /\ UNCHANGED <<document, settings, layers, elements, layer_idx, active_jobs_,
                   output_file>>
    /\ UNCHANGED <<vars_opt, vars_hatch, vars_cache, vars_units>>

\* variant of HatchAll that hatches every segment of three or more points
HatchAllAnyType(segs, job) ==
    Flatten([i \in 1..Len(segs) |->
                IF Len(segs[i].points) >= 3
                THEN generate_hatch_lines(segs[i].points, job.params.angle,
                                          job.params.spacing, job.params.alternate)
                ELSE <<>>])

\* _process_fill_job, lines 204-209: the hatch lines of the closed segments
HatchAll(segs, job) ==
    Flatten([i \in 1..Len(segs) |->
                IF segs[i].path_type = CLOSED /\ Len(segs[i].points) >= 3
                THEN generate_hatch_lines(segs[i].points, job.params.angle,
                                          job.params.spacing, job.params.alternate)
                ELSE <<>>])

\* _process_fill_job; an exception of the extraction leaves save
ProcessFillJob ==
    /\ export_pc = "jobs"
    /\ job_idx < Len(active_jobs_)
    /\ CurJob.type = "fill"
    /\ IF ExtractRaises(CurElem)
       THEN /\ export_pc' = "failed"
            /\ UNCHANGED <<_commands, total_metrics, jobs_done, job_idx>>
       ELSE /\ LET segs == _extract_segments(CurElem)
                   hatches == HatchAll(segs, CurJob)
                   res == _optimize_segments(hatches, settings, total_metrics)
               IN  IF segs = <<>> \/ hatches = <<>>
                   THEN UNCHANGED <<_commands, total_metrics, jobs_done>>
                   ELSE /\ _commands' =
                              Tagged(add_job(add_comment(_commands), res.segments, CurJob),
                                     Len(_commands) + 1, CurLayer.layer_id, CurJob.id)
                        /\ total_metrics' = res.total_metrics
                        /\ jobs_done' = Append(jobs_done,
                                               [layer |-> CurLayer.layer_id, job |-> CurJob,
                                                lines |-> FixedPowerLines(res.segments, CurJob)])
            /\ job_idx' = job_idx + 1
            /\ UNCHANGED export_pc
    /\ UNCHANGED <<document, settings, layers, elements, layer_idx, active_jobs_,
                   output_file>>
    /\ UNCHANGED <<vars_opt, vars_hatch, vars_cache, vars_units>>

\* _process_raster_job; an exception of process_image_element leaves save
\* after the commands of the images before it
ProcessRasterJob ==
    /\ export_pc = "jobs"
    /\ job_idx < Len(active_jobs_)
    /\ CurJob.type = "raster"
    /\ LET images == CurElem.images
           scanlines == Flatten(ImageScanlines(CurElem))
           emitted == Tagged(RasterLines(add_comment(add_comment(_commands)),
                                         scanlines, CurJob,
                                         clamp_speed(CurJob.speed), 1),
                             Len(_commands) + 1, CurLayer.layer_id, CurJob.id)
       IN  IF images = <<>>
           THEN /\ job_idx' = job_idx + 1
                /\ UNCHANGED <<_commands, jobs_done, export_pc>>
           ELSE /\ _commands' = emitted
                /\ jobs_done' = Append(jobs_done,
                                       [layer |-> CurLayer.layer_id, job |-> CurJob,
                                        lines |-> [i \in 1..Len(scanlines) |->
                                                     [points |-> scanlines[i].segment.points,
                                                      power_list |-> scanlines[i].power_list]]])
                /\ IF RasterRaises(CurElem)
                   THEN export_pc' = "failed" /\ UNCHANGED job_idx
                   ELSE job_idx' = job_idx + 1 /\ UNCHANGED export_pc
    /\ UNCHANGED <<document, settings, layers, elements, layer_idx, active_jobs_,
                   total_metrics, output_file>>
    /\ UNCHANGED <<vars_opt, vars_hatch, vars_cache, vars_units>>

\* save, line 88: the footer after the last layer
SaveFooter ==
    /\ export_pc = "layers"
    /\ layer_idx > Len(layers)
    /\ _commands' = add_footer(_commands)
    /\ export_pc' = "footer"
    /\ UNCHANGED <<document, settings, layers, elements, layer_idx, active_jobs_,
                   job_idx, total_metrics, output_file, jobs_done>>
    /\ UNCHANGED <<vars_opt, vars_hatch, vars_cache, vars_units>>

\* save, lines 91-92: the whole stream is written to the .nc file
SaveWrite ==
    /\ export_pc = "footer"
    /\ output_file' = _commands
    /\ export_pc' = "done"
    /\ UNCHANGED <<document, settings, _commands, layers, elements, layer_idx,
                   active_jobs_, job_idx, total_metrics, jobs_done>>
    /\ UNCHANGED <<vars_opt, vars_hatch, vars_cache, vars_units>>

Next ==
    \/ SaveBegin
    \/ SkipLayer
    \/ ProcessLayerBegin
    \/ ProcessCutJob
    \/ ProcessFillJob
    \/ ProcessRasterJob
    \/ ProcessLayerEnd
    \/ SaveFooter
    \/ SaveWrite

Spec == Init /\ [][Next]_vars

\* ---- properties of a run ----
Motion == {"rapid", "enable", "cut", "disable"}

Positions(op) == {i \in 1..Len(_commands) : _commands[i].op = op}

\* the position of the layer element with the id lid
LayerPos(lid) == CHOOSE k \in 1..Len(document) : document[k].id = lid

\* the position of the job with the id jid among the jobs of layer element k
JobPos(k, jid) == CHOOSE j \in 1..Len(document[k].jobs) : document[k].jobs[j].id = jid

\* neither the layer element k nor a layer it is nested in is hidden
Shown(k) ==
    \A m \in 1..k : (\A t \in (m + 1)..k : document[t].nested) => ~document[m].hidden

\* the motion commands emitted for the job jid of the layer lid
JobCommands(lid, jid) ==
    SelectSeq(_commands, LAMBDA c : c.layer = lid /\ c.job = jid /\ c.op \in Motion)

RECURSIVE BlockStart(_, _)
\* the number of commands of the segments before the s-th
BlockStart(lines, s) ==
    IF s = 1 THEN 0 ELSE BlockStart(lines, s - 1) + Len(lines[s - 1].points) + 2

PassLen(lines) == BlockStart(lines, Len(lines) + 1)

\* the commands of J after the first off are: a rapid move to the first
\* point, the laser enabled in the job's mode at the first power, a cutting
\* move to each further point at its power, the laser disabled
IsBlock(J, off, line, job) ==
    LET n == Len(line.points)
    IN  /\ Len(J) >= off + n + 2
        /\ J[off + 1].op = "rapid"
        /\ J[off + 1].point = line.points[1]
        /\ J[off + 2].op = "enable"
        /\ J[off + 2].mode = job.laser_mode
        /\ J[off + 2].power = line.power_list[1]
        /\ \A i \in 2..n :
              /\ J[off + 1 + i].op = "cut"
              /\ J[off + 1 + i].point = line.points[i]
              /\ J[off + 1 + i].power = line.power_list[i]
        /\ J[off + n + 2].op = "disable"

\* the commands of the job e are rounds rounds of its segments in order
InRounds(e, rounds) ==
    LET J == JobCommands(e.layer, e.job.id)
    IN  /\ Len(J) = rounds * PassLen(e.lines)
        /\ \A r \in 0..(rounds - 1), s \in 1..Len(e.lines) :
              IsBlock(J, r * PassLen(e.lines) + BlockStart(e.lines, s), e.lines[s], e.job)

\* C1: the header is emitted once and first, the footer once and last, and
\* every command of a job lies strictly between them, also when no layer is
\* visible or no job is active.
C1_HeaderFooter ==
    LET n == Len(_commands)
    IN  /\ export_pc = "idle" => _commands = <<>>
        /\ export_pc \in {"layers", "jobs"} =>
              /\ Positions("header") = {1}
              /\ Positions("footer") = {}
        /\ export_pc \in {"footer", "done"} =>
              /\ Positions("header") = {1}
              /\ Positions("footer") = {n}
              /\ n >= 2
        /\ \A i \in 1..n :
              (_commands[i].job # "" \/ _commands[i].op \in Motion) =>
                  /\ 1 < i
                  /\ export_pc \in {"footer", "done"} => i < n
        /\ (/\ export_pc = "done"
            /\ \A k \in 1..Len(document) :
                  \/ ~Shown(k)
                  \/ \A j \in 1..Len(document[k].jobs) : ~document[k].jobs[j].active) =>
              /\ n = 2
              /\ _commands[1].op = "header"
              /\ _commands[2].op = "footer"

C1_Witness ==
    /\ export_pc = "done"
    /\ Len(jobs_done) >= 3
    /\ jobs_done[1].layer # jobs_done[Len(jobs_done)].layer
    /\ _commands[Len(_commands)].op = "footer"
    /\ _commands[1].op = "header"

\* C2: the commands of jobs follow the document order of the layers and,
\* within a layer, the order of its jobs; a layer that is hidden, itself or
\* through a layer above it, or has no jobs, and an inactive job, emit
\* nothing; active_jobs is the active jobs in their order.
C2_Order ==
    /\ \A p \in 1..Len(_commands) :
          _commands[p].job # "" =>
              LET k == LayerPos(_commands[p].layer)
              IN  /\ Shown(k)
                  /\ document[k].jobs[JobPos(k, _commands[p].job)].active
    /\ \A p \in 1..Len(_commands), q \in 1..Len(_commands) :
          (p < q /\ _commands[p].job # "" /\ _commands[q].job # "") =>
              LET kp == LayerPos(_commands[p].layer)
                  kq == LayerPos(_commands[q].layer)
              IN  \/ kp < kq
                  \/ /\ kp = kq
                     /\ JobPos(kp, _commands[p].job) <= JobPos(kq, _commands[q].job)
    /\ export_pc = "jobs" =>
          LET jobs == CurLayer.jobs
              act == {j \in 1..Len(jobs) : jobs[j].active}
          IN  /\ Len(active_jobs_) = Cardinality(act)
              /\ \A j \in act :
                    active_jobs_[Cardinality({m \in act : m < j}) + 1] = jobs[j]

C2_Witness ==
    /\ export_pc = "done"
    /\ Len(document) = 2
    /\ document[1].label = "mixed"
    /\ document[2].label = "photo"
    /\ Len(jobs_done) = 4
    /\ \E p \in 1..Len(_commands) : _commands[p].layer = "layer2" /\ _commands[p].job = "j2"

\* C3: every segment emitted for a job is a rapid move to its first point,
\* the laser enabled in the job's mode at the first power, one cutting move
\* per further point at that point's power, the laser disabled; hence no
\* rapid move falls between an enable and the next disable, and every
\* enable is followed by a disable before the next rapid move or the footer.
C3_SegmentSequence ==
    /\ \A x \in 1..Len(jobs_done) :
          LET e == jobs_done[x]
              J == JobCommands(e.layer, e.job.id)
          IN  IF PassLen(e.lines) = 0 THEN J = <<>>
              ELSE /\ Len(J) >= PassLen(e.lines)
                   /\ Len(J) % PassLen(e.lines) = 0
                   /\ InRounds(e, Len(J) \div PassLen(e.lines))
    /\ \A i \in 1..Len(_commands) :
          _commands[i].op \in Motion =>
              \E x \in 1..Len(jobs_done) :
                  /\ jobs_done[x].layer = _commands[i].layer
                  /\ jobs_done[x].job.id = _commands[i].job
    /\ \A i \in Positions("enable") :
          \E j \in Positions("disable") :
              /\ i < j
              /\ \A m \in (i + 1)..(j - 1) : _commands[m].op = "cut"
    /\ \A i \in Positions("rapid") \cup Positions("footer") :
          \A m \in Positions("enable") :
              m < i => \E j \in Positions("disable") : m < j /\ j < i

C3_Witness ==
    /\ export_pc = "done"
    /\ \E x \in 1..Len(jobs_done) :
          /\ jobs_done[x].job.type = "raster"
          /\ Len(jobs_done[x].lines) = 2
          /\ InRounds(jobs_done[x], 1)
    /\ \E x \in 1..Len(jobs_done) :
          /\ jobs_done[x].job.type = "cut"
          /\ Len(jobs_done[x].lines) = 2

\* C4: a job with N passes emits the whole sequence of its ordered segments
\* N times, whatever its kind.
C4_Passes ==
    \A x \in 1..Len(jobs_done) : InRounds(jobs_done[x], jobs_done[x].job.passes)

\* ------------------------------------------------------------------------
\* PathExtractor._extract (src/geometry/extractor.py)
\*
\* Lengths of this section are in micrometres (0.001 mm), so the 0.01 mm
\* closing tolerance is 10.  The element's path after transform, superpath
\* conversion and curve subdivision is a list of subpaths; a subpath is kept
\* here as the list of its nodes pt[1].
\* ------------------------------------------------------------------------
MaxSubpaths == 3

CLOSED_PATH_TOLERANCE == 10

\* PathSegment.is_closed
is_closed(seg) ==
    IF Len(seg.points) < 3 THEN FALSE
    ELSE distance(start_point(seg), end_point(seg)) < 10

\* points = [Vector2d(pt[1][0], viewbox_height - pt[1][1]) for pt in subpath]
FlipPoints(subpath, height) ==
    [i \in 1..Len(subpath) |-> <<subpath[i][1], height - subpath[i][2]>>]

\* variant of the classification that also closes at exactly the tolerance
ClassifyLe(points) ==
    Len(points) > 2 /\ distance(points[1], points[Len(points)]) <= CLOSED_PATH_TOLERANCE

\* is_closed = len(points) > 2 and distance(points[0], points[-1]) < CLOSED_PATH_TOLERANCE
Classify(points) ==
    Len(points) > 2 /\ distance(points[1], points[Len(points)]) < CLOSED_PATH_TOLERANCE

\* subpaths an element can flatten to: empty, one node, two nodes, and longer
\* ones whose ends are 0, 9, 10 and 50 micrometres apart
SubpathPool ==
    { <<>>,
      << <<0, 0>> >>,
      << <<0, 0>>, <<0, 0>> >>,
      << <<0, 0>>, <<9, 0>> >>,
      << <<0, 0>>, <<40, 0>>, <<0, 0>> >>,
      << <<0, 0>>, <<40, 0>>, <<9, 0>> >>,
      << <<0, 0>>, <<40, 0>>, <<10, 0>> >>,
      << <<0, 0>>, <<40, 0>>, <<40, 30>> >>,
      << <<0, 0>>, <<40, 0>>, <<40, 30>>, <<0, 30>>, <<0, 0>> >> }

ViewboxHeights == {100, 200}

InitExtract ==
    /\ superpath \in SeqUpTo(SubpathPool, MaxSubpaths)
    /\ viewbox_height \in ViewboxHeights
    /\ subpath_idx = 1
    /\ extracted = <<>>
    /\ extract_pc = "loop"
    /\ kept = <<>>
    /\ OptimizerIdle /\ HatchIdle /\ CacheIdle /\ ExportIdle
    /\ RasterIdle /\ CallIdle /\ SvgIdle /\ LayerIdle

rest_extract ==
    <<vars_opt, vars_hatch, vars_cache, vars_export, vars_raster, vars_call, vars_svg,
      vars_layer>>

\* if not subpath or len(subpath) < 2: continue
ExtractSkip ==
    /\ extract_pc = "loop"
    /\ subpath_idx <= Len(superpath)
    /\ Len(superpath[subpath_idx]) < 2
    /\ subpath_idx' = subpath_idx + 1
    /\ UNCHANGED <<superpath, viewbox_height, extracted, extract_pc, kept>>
    /\ UNCHANGED rest_extract

\* the rest of the loop body: flip, classify, append
ExtractAppend ==
    /\ extract_pc = "loop"
    /\ subpath_idx <= Len(superpath)
    /\ Len(superpath[subpath_idx]) >= 2
    /\ LET points == FlipPoints(superpath[subpath_idx], viewbox_height)
       IN  extracted' = Append(extracted,
               PathSegment(points, "shape1", "path",
                           IF Classify(points) THEN CLOSED ELSE OPEN))
    /\ kept' = Append(kept, subpath_idx)
    /\ subpath_idx' = subpath_idx + 1
    /\ UNCHANGED <<superpath, viewbox_height, extract_pc>>
    /\ UNCHANGED rest_extract

\* return segments
ExtractReturn ==
    /\ extract_pc = "loop"
    /\ subpath_idx > Len(superpath)
    /\ extract_pc' = "done"
    /\ UNCHANGED <<superpath, viewbox_height, subpath_idx, extracted, kept>>
    /\ UNCHANGED rest_extract

NextExtract == ExtractSkip \/ ExtractAppend \/ ExtractReturn

SpecExtract == InitExtract /\ [][NextExtract]_vars

\* ------------------------------------------------------------------------
\* Properties of the extractor
\* ------------------------------------------------------------------------
\* the indexes of the subpaths before position n that have two nodes or more
RECURSIVE LongSubpaths(_)
LongSubpaths(n) ==
    IF n = 0 THEN <<>>
    ELSE IF Len(superpath[n]) >= 2 THEN Append(LongSubpaths(n - 1), n)
         ELSE LongSubpaths(n - 1)

\* C11: the extractor yields one segment per subpath of two nodes or more, in
\* subpath order, and none for a shorter subpath; a segment is CLOSED exactly
\* when it has three points or more and its ends are less than 0.01 mm
\* apart, so the stored type agrees with is_closed() and every segment has
\* two points or more.
C11_Classification ==
    /\ extract_pc \in {"loop", "done"} =>
          /\ kept = LongSubpaths(subpath_idx - 1)
          /\ Len(extracted) = Len(kept)
    /\ extract_pc = "done" => subpath_idx = Len(superpath) + 1
    /\ \A k \in 1..Len(extracted) :
          LET seg == extracted[k]
              first == seg.points[1]
              last == seg.points[Len(seg.points)]
          IN  /\ seg.points = FlipPoints(superpath[kept[k]], viewbox_height)
              /\ Len(seg.points) >= 2
              /\ seg.path_type \in {CLOSED, OPEN}
              /\ seg.path_type = CLOSED <=>
                     (Len(seg.points) >= 3 /\ distance(first, last) < 10)
              /\ seg.path_type = CLOSED <=> is_closed(seg)

\* a finished extraction that dropped a short subpath and produced a closed
\* segment, a nearly closed one and one whose ends are exactly 0.01 mm apart
C11_Witness ==
    /\ extract_pc = "done"
    /\ Len(extracted) < Len(superpath)
    /\ \E a, b \in 1..Len(extracted) :
          /\ extracted[a].path_type = CLOSED
          /\ extracted[b].path_type = OPEN
          /\ Len(extracted[b].points) = 3
          /\ distance(extracted[b].points[1], extracted[b].points[3]) = 10

\* ------------------------------------------------------------------------
\* Single function calls
\*
\* A call is drawn with its arguments in the initial state and applied by
\* the action of its function.
\* ------------------------------------------------------------------------
rest_call ==
    <<vars_opt, vars_hatch, vars_cache, vars_export, vars_extract, vars_raster, vars_svg,
      vars_layer>>

Call(fn, args) == [fn |-> fn, args |-> args]

\* RasterProcessor._pixel_to_power(pixel_value, power_min, power_range):
\*     intensity = 1.0 - (pixel_value / 255.0)
\*     return int(power_min + intensity * power_range)
\* The exact value is power_min + (255 - v) * range / 255.  Where that is
\* not an integer it is at least 1/255 away from one, far more than the
\* rounding of the three float operations, and int() yields its floor.
\* Where it is an integer and 0 < v < 255, the float product can fall just
\* below it (v = 204: 1.0 - 0.8 = 0.19999999999999996) and int() then yields
\* one less; `below` says whether it did.  v = 0 and v = 255 are exact.
\* variant that takes the pixel value itself as the intensity
_pixel_to_power_direct(pixel_value, power_min, power_range, below) ==
    power_min + (pixel_value * power_range) \div 255

_pixel_to_power(pixel_value, power_min, power_range, below) ==
    LET num == (255 - pixel_value) * power_range
        inexact == /\ num % 255 = 0
                   /\ pixel_value \in 1..254
                   /\ power_range > 0
    IN  power_min + (num \div 255) - (IF inexact /\ below THEN 1 ELSE 0)

PixelValues == 0..255

\* (power_min, power_max) of a raster job
PowerRanges ==
    { <<0, 1000>>, <<0, 0>>, <<100, 600>>, <<0, 255>>, <<600, 600>>, <<0, 15>>,
      <<200, 455>> }

PixelCalls ==
    { Call("_pixel_to_power", <<v, r[1], r[2] - r[1]>>) :
          v \in PixelValues, r \in PowerRanges }

Apply_pixel_to_power ==
    /\ fn_in.fn = "_pixel_to_power"
    /\ fn_out = Pending
    /\ \E below \in BOOLEAN :
          fn_out' = Returned(_pixel_to_power(fn_in.args[1], fn_in.args[2],
                                             fn_in.args[3], below))
    /\ UNCHANGED fn_in
    /\ UNCHANGED rest_call

\* ------------------------------------------------------------------------
\* MachineSettings.clamp_power / clamp_speed on any float
\*
\* A float argument is a finite value, kept in halves (Fin(h) is h / 2), or
\* one of inf, -inf and nan.
\* ------------------------------------------------------------------------
Fin(h) == [kind |-> "fin", half |-> h]

PosInf == [kind |-> "inf", half |-> 0]

NegInf == [kind |-> "-inf", half |-> 0]

NaN == [kind |-> "nan", half |-> 0]

\* a < b on floats: false whenever either side is nan
FloatLess(a, b) ==
    IF a.kind = "nan" \/ b.kind = "nan" THEN FALSE
    ELSE IF a.kind = "-inf" THEN b.kind # "-inf"
    ELSE IF a.kind = "inf" THEN FALSE
    ELSE IF b.kind = "inf" THEN TRUE
    ELSE IF b.kind = "-inf" THEN FALSE
    ELSE a.half < b.half

\* min(a, b): a unless b < a
PyMin(a, b) == IF FloatLess(b, a) THEN b ELSE a

\* max(a, b): a unless b > a
PyMax(a, b) == IF FloatLess(a, b) THEN b ELSE a

\* int(x): truncation toward zero; raises on inf and nan
PyInt(x) ==
    IF x.kind = "nan" THEN Raised("ValueError")
    ELSE IF x.kind # "fin" THEN Raised("OverflowError")
    ELSE Returned(IF x.half >= 0 THEN x.half \div 2 ELSE -((-x.half) \div 2))

\* clamped = int(max(low, min(value, limit)))
\* if clamped != int(value): logger.warning(...)
\* return clamped
ClampTo(low, limit, value) ==
    LET clamped == PyInt(PyMax(Fin(2 * low), PyMin(value, Fin(2 * limit))))
        whole == PyInt(value)
    IN  IF clamped.status = "raised" THEN clamped
        ELSE IF whole.status = "raised" THEN whole
        ELSE clamped

\* MachineSettings(max_power = limit).clamp_power(value)
ClampPower(limit, value) == ClampTo(0, limit, value)

\* MachineSettings(max_speed = limit).clamp_speed(value)
ClampSpeed(limit, value) == ClampTo(1, limit, value)

PowerLimits == {500, max_power}

SpeedLimits == {3000, max_speed}

\* finite arguments in halves: negative, zero, fractional, inside, at and
\* above the limit
FiniteHalves(limit) ==
    {-201, -200, -1, 0, 1, 2, 3, 21, 400,
     2 * limit - 1, 2 * limit, 2 * limit + 1, 2 * limit + 2, 4 * limit}

FloatValues(limit) == {Fin(h) : h \in FiniteHalves(limit)} \cup {PosInf, NegInf, NaN}

ClampCalls ==
    { Call("clamp_power", <<limit, value>>) :
          limit \in PowerLimits, value \in FloatValues(max_power) }
    \cup
    { Call("clamp_speed", <<limit, value>>) :
          limit \in SpeedLimits, value \in FloatValues(max_speed) }

Apply_clamp_power ==
    /\ fn_in.fn = "clamp_power"
    /\ fn_out = Pending
    /\ fn_out' = ClampPower(fn_in.args[1], fn_in.args[2])
    /\ UNCHANGED fn_in
    /\ UNCHANGED rest_call

Apply_clamp_speed ==
    /\ fn_in.fn = "clamp_speed"
    /\ fn_out = Pending
    /\ fn_out' = ClampSpeed(fn_in.args[1], fn_in.args[2])
    /\ UNCHANGED fn_in
    /\ UNCHANGED rest_call

\* ------------------------------------------------------------------------
\* PathSegment.reverse and PathSegment.length on any segment
\*
\* The points lie on one line, so every edge length is an integer; edges of
\* 28 and more make the float sum of a few of them round.
\* ------------------------------------------------------------------------
MaxPoints == 4

LinePoints == { <<0, 0>>, <<1, 0>>, <<3, 0>>, <<30, 0>>, <<31, 0>> }

AnySegments ==
    { PathSegment(pts, "shape1", "path", ptype) :
          pts \in SeqUpTo(LinePoints, MaxPoints), ptype \in {CLOSED, OPEN} }

ReverseCalls == { Call("reverse", <<seg>>) : seg \in AnySegments }

Apply_reverse ==
    /\ fn_in.fn = "reverse"
    /\ fn_out = Pending
    /\ fn_out' = Returned(reverse(fn_in.args[1]))
    /\ UNCHANGED fn_in
    /\ UNCHANGED rest_call

\* ------------------------------------------------------------------------
\* OptimizationMetrics.travel_savings
\*
\* The percentage is kept as an exact fraction in lowest terms with a
\* positive denominator.
\* ------------------------------------------------------------------------
RECURSIVE GCD(_, _)
GCD(a, b) == IF b = 0 THEN a ELSE GCD(b, a % b)

Fraction(n, d) ==
    LET g == GCD(Abs(n), d)
    IN  [num |-> n \div g, den |-> d \div g]

\* variant that returns the fraction saved instead of the percentage
travel_savings_fraction(m) ==
    IF m.original_travel_distance = 0 THEN Fraction(0, 1)
    ELSE Fraction(m.original_travel_distance - m.optimized_travel_distance,
                  m.original_travel_distance)

\* if self.original_travel_distance == 0: return 0.0
\* return (original - optimized) / original * 100
travel_savings(m) ==
    IF m.original_travel_distance = 0 THEN Fraction(0, 1)
    ELSE Fraction((m.original_travel_distance - m.optimized_travel_distance) * 100,
                  m.original_travel_distance)

TravelDistances == 0..12 \cup {60, 100}

SavingsCalls ==
    { Call("travel_savings",
           << [OptimizationMetrics EXCEPT !.original_travel_distance = a,
                                          !.optimized_travel_distance = b] >>) :
          a \in TravelDistances, b \in TravelDistances }

Apply_travel_savings ==
    /\ fn_in.fn = "travel_savings"
    /\ fn_out = Pending
    /\ fn_out' = Returned(travel_savings(fn_in.args[1]))
    /\ UNCHANGED fn_in
    /\ UNCHANGED rest_call

\* ------------------------------------------------------------------------
\* models/job.py: Job.to_json / Job.from_json
\*
\* JobType and LaserMode are str enums, so a member is its value.  A params
\* dict is a function from its keys; spacing is in tenths of a millimetre.
\* ------------------------------------------------------------------------
\* _DEFAULT_PARAMS
_DEFAULT_PARAMS(job_type) ==
    IF job_type = "fill" THEN [angle |-> 45, spacing |-> 5, alternate |-> TRUE]
    ELSE IF job_type = "raster" THEN [dpi |-> 300, direction |-> "horizontal"]
    ELSE EmptyMap

\* variant of the merge in which the defaults win over the stored values
DefaultsFirst(default_params, raw_params) ==
    [k \in DOMAIN default_params \cup DOMAIN raw_params |->
        IF k \in DOMAIN default_params THEN default_params[k] ELSE raw_params[k]]

\* default_params = defaults.copy(); default_params.update(raw_params)
UpdateParams(default_params, raw_params) ==
    [k \in DOMAIN default_params \cup DOMAIN raw_params |->
        IF k \in DOMAIN raw_params THEN raw_params[k] ELSE default_params[k]]

\* Job.to_dict, and json.dumps of it: the eleven keys, params copied
to_json(job) ==
    [id |-> job.id, type |-> job.type, active |-> job.active, passes |-> job.passes,
     speed |-> job.speed, power_min |-> job.power_min, power_max |-> job.power_max,
     air_assist |-> job.air_assist, offset |-> job.offset,
     laser_mode |-> job.laser_mode, params |-> job.params]

\* json.loads, then Job.from_dict: every key is present in what to_json wrote
from_json(data) ==
    [id |-> data.id, type |-> data.type, active |-> data.active, passes |-> data.passes,
     speed |-> data.speed, power_min |-> data.power_min, power_max |-> data.power_max,
     air_assist |-> data.air_assist, offset |-> data.offset,
     laser_mode |-> data.laser_mode,
     params |-> UpdateParams(_DEFAULT_PARAMS(data.type), data.params)]

\* the params a job can hold.  create_default and from_dict give a job every
\* default key of its type and the dialog only sets values; a stored job can
\* carry a key of its own; Job(type=..., params=...) takes any dict, also
\* one without the default keys
ParamsOf(job_type) ==
    IF job_type = "fill"
    THEN [angle : {45, 90}, spacing : {5, 2}, alternate : BOOLEAN]
             \cup {EmptyMap, [angle |-> 90]}
    ELSE IF job_type = "raster"
    THEN [dpi : {300, 600}, direction : {"horizontal", "vertical"}] \cup {EmptyMap}
    ELSE {EmptyMap, [note |-> "x"]}

Jobs ==
    UNION { [id : {"job-1"}, type : {t}, active : BOOLEAN, passes : {1, 3},
             speed : {800, 10}, power_min : {0, 100}, power_max : {600},
             air_assist : BOOLEAN, offset : {0, -1}, laser_mode : {"M3", "M4"},
             params : ParamsOf(t)] : t \in {"cut", "fill", "raster"} }

JobCalls == { Call("round_trip", <<job>>) : job \in Jobs }

\* Job.from_json(job.to_json())
Apply_round_trip ==
    /\ fn_in.fn = "round_trip"
    /\ fn_out = Pending
    /\ fn_out' = Returned(from_json(to_json(fn_in.args[1])))
    /\ UNCHANGED fn_in
    /\ UNCHANGED rest_call

CallInputs == PixelCalls \cup ClampCalls \cup ReverseCalls \cup SavingsCalls \cup JobCalls

InitCalls ==
    /\ fn_in \in CallInputs
    /\ fn_out = Pending
    /\ OptimizerIdle /\ HatchIdle /\ CacheIdle /\ ExportIdle
    /\ ExtractIdle /\ RasterIdle /\ SvgIdle /\ LayerIdle

NextCalls ==
    \/ Apply_pixel_to_power
    \/ Apply_clamp_power
    \/ Apply_clamp_speed
    \/ Apply_reverse
    \/ Apply_travel_savings
    \/ Apply_round_trip

SpecCalls == InitCalls /\ [][NextCalls]_vars

\* ------------------------------------------------------------------------
\* Properties of the raster power mapping
\* ------------------------------------------------------------------------
\* C12: for a pixel value v in 0..255 and power_min <= power_max, the raster
\* power is power_max at v = 0 and power_min at v = 255, never increases
\* with v, lies in [power_min, power_max], and is the truncated
\* power_min + (1 - v/255) * (power_max - power_min) as floats compute it;
\* v = 128 on (0, 1000) gives a value in [490, 510].
C12_PowerMapping ==
    (fn_in.fn = "_pixel_to_power" /\ fn_out.status = "returned") =>
        LET v == fn_in.args[1]
            power_min == fn_in.args[2]
            range == fn_in.args[3]
            power_max == power_min + range
            exact255 == 255 * power_min + (255 - v) * range
            out == fn_out.value
        IN  /\ v = 0 => out = power_max
            /\ v = 255 => out = power_min
            /\ power_min <= out /\ out <= power_max
            /\ \A w \in PixelValues : \A b \in BOOLEAN :
                  /\ w > v => _pixel_to_power(w, power_min, range, b) <= out
                  /\ w < v => _pixel_to_power(w, power_min, range, b) >= out
            /\ 255 * out <= exact255
            /\ exact255 < 255 * (out + 1) \/ (exact255 = 255 * (out + 1) /\ v \in 1..254)
            /\ (v = 128 /\ power_min = 0 /\ range = 1000) => (490 <= out /\ out <= 510)

\* the mapping was applied to a mid-gray pixel on a proper range and gave a
\* power strictly between the two ends
C12_Witness ==
    /\ fn_in.fn = "_pixel_to_power"
    /\ fn_out.status = "returned"
    /\ fn_in.args[1] = 128
    /\ fn_in.args[3] > 0
    /\ fn_in.args[2] < fn_out.value
    /\ fn_out.value < fn_in.args[2] + fn_in.args[3]

\* ------------------------------------------------------------------------
\* RasterProcessor._horizontal_scan / _vertical_scan (src/raster/processor.py)
\*
\* The image is the resized grayscale grid, pixels[row + 1][col + 1] for
\* the code's pixels[col, row].  Lengths are in dots (mm_per_dot = 1) and
\* the element transform is the identity.  Pixel values are 0, 128 and 255
\* and no power range is a multiple of 255 wide, so the float product of
\* _pixel_to_power is never integral at the mid gray and its result is the
\* floor.
\* ------------------------------------------------------------------------
MaxPixels == 2

GrayLevels == {0, 128, 255}

ScanRanges == { <<0, 1000>>, <<100, 600>>, <<600, 600>> }

Images ==
    UNION { [1..rows -> [1..cols -> GrayLevels]] :
                rows \in 1..MaxPixels, cols \in 1..MaxPixels }

ImageRows == Len(pixels)

ImageCols == Len(pixels[1])

\* number of scan lines, and of pixels on each
ScanLines == IF direction = "horizontal" THEN ImageRows ELSE ImageCols

ScanWidth == IF direction = "horizontal" THEN ImageCols ELSE ImageRows

\* variant that visits every line forward
ScanOrderForward(line) == [i \in 1..ScanWidth |-> i - 1]

\* col_range / row_range: forward on even lines, backward on odd ones
ScanOrder(line) ==
    [i \in 1..ScanWidth |-> IF line % 2 = 0 THEN i - 1 ELSE ScanWidth - i]

\* (col, row) of the i-th pixel visited on a line
ScanCell(line, i) ==
    IF direction = "horizontal" THEN <<ScanOrder(line)[i], line>>
    ELSE <<line, ScanOrder(line)[i]>>

\* points.append(Vector2d(tx, viewbox_height - ty)), the viewbox 10 dots high
ScanPoints(line) ==
    [i \in 1..ScanWidth |->
        <<ScanCell(line, i)[1], 10 - ScanCell(line, i)[2]>>]

\* powers.append(self._pixel_to_power(pixels[col, row], power_min, power_range))
ScanPowers(line) ==
    [i \in 1..ScanWidth |->
        _pixel_to_power(pixels[ScanCell(line, i)[2] + 1][ScanCell(line, i)[1] + 1],
                        scan_power_min, scan_power_max - scan_power_min, FALSE)]

RECURSIVE SeqMax(_)
SeqMax(seq) ==
    IF Len(seq) = 1 THEN seq[1]
    ELSE Max(seq[1], SeqMax(Tail(seq)))

\* variant that also emits a line at the background power
ScanEmitsGe(points, powers) ==
    Len(points) >= 2 /\ SeqMax(powers) >= scan_power_min

\* if len(points) >= 2 and max(powers) > int(power_min)
ScanEmits(points, powers) ==
    Len(points) >= 2 /\ SeqMax(powers) > scan_power_min

InitRaster ==
    /\ pixels \in Images
    /\ direction \in {"horizontal", "vertical"}
    /\ \E r \in ScanRanges : scan_power_min = r[1] /\ scan_power_max = r[2]
    /\ scan_line = 0
    /\ results = <<>>
    /\ raster_pc = "scan"
    /\ emitted_from = <<>>
    /\ OptimizerIdle /\ HatchIdle /\ CacheIdle /\ ExportIdle
    /\ ExtractIdle /\ CallIdle /\ SvgIdle /\ LayerIdle

rest_raster ==
    <<vars_opt, vars_hatch, vars_cache, vars_export, vars_extract, vars_call, vars_svg,
      vars_layer>>

\* one pass of the outer loop whose line is appended
ScanLineEmit ==
    /\ raster_pc = "scan"
    /\ scan_line < ScanLines
    /\ ScanEmits(ScanPoints(scan_line), ScanPowers(scan_line))
    /\ results' = Append(results,
          [segment |-> PathSegment(ScanPoints(scan_line), "raster", "raster", OPEN),
           power_list |-> ScanPowers(scan_line)])
    /\ emitted_from' = Append(emitted_from, scan_line)
    /\ scan_line' = scan_line + 1
    /\ UNCHANGED <<pixels, direction, scan_power_min, scan_power_max, raster_pc>>
    /\ UNCHANGED rest_raster

\* one pass of the outer loop whose line is not appended
ScanLineSkip ==
    /\ raster_pc = "scan"
    /\ scan_line < ScanLines
    /\ ~ScanEmits(ScanPoints(scan_line), ScanPowers(scan_line))
    /\ scan_line' = scan_line + 1
    /\ UNCHANGED <<pixels, direction, scan_power_min, scan_power_max, results,
                   raster_pc, emitted_from>>
    /\ UNCHANGED rest_raster

\* return results
ScanReturn ==
    /\ raster_pc = "scan"
    /\ scan_line >= ScanLines
    /\ raster_pc' = "done"
    /\ UNCHANGED <<pixels, direction, scan_power_min, scan_power_max, scan_line,
                   results, emitted_from>>
    /\ UNCHANGED rest_raster

NextRaster == ScanLineEmit \/ ScanLineSkip \/ ScanReturn

SpecRaster == InitRaster /\ [][NextRaster]_vars

\* ------------------------------------------------------------------------
\* Properties of the raster scan
\* ------------------------------------------------------------------------
\* a line all of whose pixels map to power_min
Background(line) ==
    \A i \in 1..ScanWidth : ScanPowers(line)[i] = scan_power_min

\* the lines before position n that satisfy want, in increasing order
RECURSIVE LinesBefore(_, _)
LinesBefore(n, want) ==
    IF n = 0 THEN <<>>
    ELSE IF want[n - 1] THEN Append(LinesBefore(n - 1, want), n - 1)
         ELSE LinesBefore(n - 1, want)

NotBackground == [line \in 0..(ScanLines - 1) |-> ~Background(line)]

LongAndNotBackground ==
    [line \in 0..(ScanLines - 1) |-> ScanWidth >= 2 /\ ~Background(line)]

\* every result is the line it came from: its points, its powers, some power
\* above the background
ResultsAreLines ==
    /\ Len(results) = Len(emitted_from)
    /\ \A k \in 1..Len(results) :
          /\ results[k].power_list = ScanPowers(emitted_from[k])
          /\ results[k].segment.points = ScanPoints(emitted_from[k])
          /\ SeqMax(results[k].power_list) > scan_power_min
          /\ ~Background(emitted_from[k])

\* C13 as stated: a scan line is emitted only if its maximum power exceeds
\* power_min, an all-background line contributes nothing, and all the other
\* lines are emitted, in increasing line order.
C13_OthersEmitted ==
    raster_pc \in {"scan", "done"} =>
        /\ ResultsAreLines
        /\ emitted_from = LinesBefore(scan_line, NotBackground)

\* C13: a scan line is emitted only if its maximum power exceeds power_min,
\* an all-background line contributes nothing, and the other lines that have
\* two pixels or more are emitted, in increasing line order; a line of a
\* single pixel is never emitted.
C13_LongOthersEmitted ==
    raster_pc \in {"scan", "done"} =>
        /\ ResultsAreLines
        /\ emitted_from = LinesBefore(scan_line, LongAndNotBackground)
        /\ \A k \in 1..Len(results) : Len(results[k].segment.points) >= 2

\* a finished scan of two lines that dropped a background line and emitted
\* the other one
C13_Witness ==
    /\ raster_pc = "done"
    /\ ScanLines = 2
    /\ Len(results) = 1
    /\ \E line \in 0..1 : Background(line) /\ emitted_from = <<1 - line>>

\* ------------------------------------------------------------------------
\* Properties of clamping
\* ------------------------------------------------------------------------
ClampLow == IF fn_in.fn = "clamp_power" THEN 0 ELSE 1

\* C14: for every value and limit, clamp_power returns an integer in
\* [0, max_power] and clamp_speed one in [1, max_speed]; a value above the
\* maximum gives the maximum, a negative power gives 0, a value inside the
\* range is returned truncated, clamping never raises, and clamping a
\* clamped value changes nothing.
C14_Clamp ==
    (fn_in.fn \in {"clamp_power", "clamp_speed"} /\ fn_out # Pending) =>
        LET limit == fn_in.args[1]
            value == fn_in.args[2]
        IN  /\ fn_out.status = "returned"
            /\ fn_out.value \in ClampLow..limit
            /\ FloatLess(Fin(2 * limit), value) => fn_out.value = limit
            /\ (fn_in.fn = "clamp_power" /\ FloatLess(value, Fin(0))) => fn_out.value = 0
            /\ (value.kind = "fin" /\ 2 * ClampLow <= value.half /\ value.half <= 2 * limit)
                   => fn_out.value = value.half \div 2
            /\ ClampTo(ClampLow, limit, Fin(2 * fn_out.value)) = fn_out

\* ------------------------------------------------------------------------
\* Properties of a run on faulty input
\* ------------------------------------------------------------------------
\* the entry of jobs_done for the job jid of the layer lid, 0 if none
DoneEntry(lid, jid) ==
    IF \E x \in 1..Len(jobs_done) : jobs_done[x].layer = lid /\ jobs_done[x].job.id = jid
    THEN CHOOSE x \in 1..Len(jobs_done) :
             jobs_done[x].layer = lid /\ jobs_done[x].job.id = jid
    ELSE 0

\* at the end of a run, every active cut job of a shown layer with a sound
\* visible shape has emitted the segments of all the sound visible shapes
CutJobsRan ==
    export_pc = "done" =>
        \A k \in 1..Len(document) : \A j \in 1..Len(document[k].jobs) :
            (/\ Shown(k)
             /\ elements[document[k].id] = k
             /\ document[k].jobs[j].active
             /\ document[k].jobs[j].type = "cut"
             /\ _extract_segments(document[k]) # <<>>) =>
                /\ DoneEntry(document[k].id, document[k].jobs[j].id) # 0
                /\ Len(jobs_done[DoneEntry(document[k].id, document[k].jobs[j].id)].lines)
                       = Len(_extract_segments(document[k]))

\* C15: when the extraction of one shape fails, that shape alone is skipped:
\* the run goes on with the other shapes of the layer and with the other
\* jobs and layers, the footer is emitted and the output is written.
C15_ShapeSkipped ==
    /\ export_pc = "failed" =>
          ~(CurJob.type \in {"cut", "fill"} /\ ExtractRaises(CurElem))
    /\ CutJobsRan
    /\ export_pc = "done" => output_file = _commands

\* C16: when an image of a raster job cannot be decoded or has no source,
\* nothing moves for it and no error leaves the run; the other jobs of the
\* layer and the later layers still run in order.
C16_ImageSkipped ==
    /\ export_pc = "failed" => ~(CurJob.type = "raster" /\ RasterRaises(CurElem))
    /\ \A x \in 1..Len(jobs_done) :
          LET e == jobs_done[x]
              elem == document[LayerPos(e.layer)]
              sound == SelectSeq(elem.images, LAMBDA img : img.source = "ok")
          IN  e.job.type = "raster" =>
                  /\ Len(e.lines) = Len(Flatten([i \in 1..Len(sound) |-> sound[i].lines]))
                  /\ (sound = <<>> => JobCommands(e.layer, e.job.id) = <<>>)
    /\ CutJobsRan

\* ------------------------------------------------------------------------
\* Properties of reverse
\* ------------------------------------------------------------------------
\* what C17 says of reverse apart from the float length
ReverseShape(seg, rev) ==
    /\ reverse(rev).points = seg.points
    /\ Len(rev.points) = Len(seg.points)
    /\ start_point(rev) = end_point(seg)
    /\ end_point(rev) = start_point(seg)
    /\ rev.element_id = seg.element_id
    /\ rev.element_type = seg.element_type
    /\ rev.path_type = seg.path_type
    /\ Len(seg.points) = 1 => (length(seg) = 0 /\ length(rev) = 0)

\* C17 as stated: reversing twice gives the points back, the reversed
\* segment has the length of the original, its ends are swapped, its origin
\* tag and type are kept, and a single point has length 0.
C17_ReverseLength ==
    (fn_in.fn = "reverse" /\ fn_out.status = "returned") =>
        /\ ReverseShape(fn_in.args[1], fn_out.value)
        /\ length(fn_out.value) = length(fn_in.args[1])

\* C17: reversing twice gives the points back, the ends are swapped, the
\* origin tag and type are kept, a single point has length 0; the reversed
\* segment has the same edges, so the same exact length, and the same float
\* length whenever no addition rounds (the float sums are taken in opposite
\* orders and can differ in the last bit otherwise).
C17_ReverseExact ==
    (fn_in.fn = "reverse" /\ fn_out.status = "returned") =>
        LET seg == fn_in.args[1]
            rev == fn_out.value
        IN  /\ ReverseShape(seg, rev)
            /\ ExactLength(rev.points, 1) = ExactLength(seg.points, 1)
            /\ ExactLength(seg.points, 1) < Pow2(MantBits) =>
                  (length(rev) = length(seg) /\ length(seg) = ExactLength(seg.points, 1))
            /\ Abs(length(rev) - ExactLength(seg.points, 1)) * Pow2(MantBits) <=
                  Len(seg.points) * ExactLength(seg.points, 1)

\* a segment of three edges was reversed and its float length changed
C17_Witness ==
    /\ fn_in.fn = "reverse"
    /\ fn_out.status = "returned"
    /\ Len(fn_in.args[1].points) = 4
    /\ start_point(fn_in.args[1]) # end_point(fn_in.args[1])
    /\ length(fn_out.value) # length(fn_in.args[1])

\* ------------------------------------------------------------------------
\* Properties of the metrics
\* ------------------------------------------------------------------------
\* C18: travel_savings is 0 when original_travel_distance is 0, whatever
\* the optimized distance, and (original - optimized) / original * 100
\* otherwise; original 100 and optimized 60 give 40.
C18_TravelSavings ==
    (fn_in.fn = "travel_savings" /\ fn_out.status = "returned") =>
        LET orig == fn_in.args[1].original_travel_distance
            opt == fn_in.args[1].optimized_travel_distance
            out == fn_out.value
        IN  /\ out.den > 0
            /\ orig = 0 => out.num = 0
            /\ orig # 0 => out.num * orig = (orig - opt) * 100 * out.den
            /\ (orig = 100 /\ opt = 60) => (out.num = 40 /\ out.den = 1)

\* the savings of a run that shortened a non-zero travel
C18_Witness ==
    /\ fn_in.fn = "travel_savings"
    /\ fn_out.status = "returned"
    /\ fn_in.args[1].original_travel_distance = 100
    /\ fn_in.args[1].optimized_travel_distance = 60
    /\ fn_out.value.num = 40

\* ------------------------------------------------------------------------
\* Properties of job serialization
\* ------------------------------------------------------------------------
\* the fields of a job other than params are those of the original
SameFields(job, back) ==
    /\ back.id = job.id
    /\ back.type = job.type
    /\ back.active = job.active
    /\ back.passes = job.passes
    /\ back.speed = job.speed
    /\ back.power_min = job.power_min
    /\ back.power_max = job.power_max
    /\ back.air_assist = job.air_assist
    /\ back.offset = job.offset
    /\ back.laser_mode = job.laser_mode

\* C19 as stated: Job.from_json(job.to_json()) has the id, type, active
\* flag, passes, speed, power_min, power_max, air_assist, offset and
\* laser_mode of the job and the same params: no key added, removed or
\* changed.
C19_RoundTrip ==
    (fn_in.fn = "round_trip" /\ fn_out.status = "returned") =>
        LET job == fn_in.args[1]
            back == fn_out.value
        IN  /\ SameFields(job, back)
            /\ DOMAIN back.params = DOMAIN job.params
            /\ \A k \in DOMAIN job.params : back.params[k] = job.params[k]

\* C19: Job.from_json(job.to_json()) has the fields of the job; no key of
\* params is removed or changed; the default keys of the job's type that
\* the job lacks are added with their default values, so params is
\* unchanged exactly when the job holds every default key of its type.
C19_RoundTripDefaults ==
    (fn_in.fn = "round_trip" /\ fn_out.status = "returned") =>
        LET job == fn_in.args[1]
            back == fn_out.value
            defaults == _DEFAULT_PARAMS(job.type)
        IN  /\ SameFields(job, back)
            /\ DOMAIN back.params = DOMAIN job.params \cup DOMAIN defaults
            /\ \A k \in DOMAIN job.params : back.params[k] = job.params[k]
            /\ \A k \in DOMAIN defaults \ DOMAIN job.params : back.params[k] = defaults[k]
            /\ (DOMAIN defaults \subseteq DOMAIN job.params) <=> (back = job)

\* an inactive fill job whose three parameters all differ from the defaults
\* went through the round trip
C19_Witness ==
    /\ fn_in.fn = "round_trip"
    /\ fn_out.status = "returned"
    /\ fn_in.args[1].type = "fill"
    /\ ~fn_in.args[1].active
    /\ fn_in.args[1].params = [angle |-> 90, spacing |-> 2, alternate |-> FALSE]
    /\ fn_out.value.params.angle = 90

\* ========================================================================
\* Layer persistence (src/persistence/svg_io.py, src/models/layer.py)
\* ========================================================================
\* One layer <g> element and the Layer model loaded from it.  An attribute
\* name is the sequence of its pieces: "data-job-" followed by characters,
\* or a single piece for any other name.
MaxJobs == 2

rest_svg ==
    <<vars_opt, vars_hatch, vars_cache, vars_export, vars_extract, vars_raster, vars_call,
      vars_layer>>

DigitChars == <<"0", "1", "2", "3", "4", "5", "6", "7", "8", "9">>

\* str(idx) of the f-string
RECURSIVE Decimal(_)
Decimal(idx) ==
    IF idx < 10 THEN <<DigitChars[idx + 1]>>
    ELSE Decimal(idx \div 10) \o <<DigitChars[(idx % 10) + 1]>>

\* f"data-job-{idx}"
JobKey(idx) == <<"data-job-">> \o Decimal(idx)

\* _DATA_JOB_RE.match(k) with the pattern ^data-job-(\d+)$
_DATA_JOB_RE(name) ==
    /\ Len(name) >= 2
    /\ name[1] = "data-job-"
    /\ \A i \in 2..Len(name) : \E d \in 1..Len(DigitChars) : name[i] = DigitChars[d]

\* Job.create_default(job_type); the uuid plays no part in what is stored
\* beyond being copied, and is one fixed string here
create_default(job_type) ==
    [id |-> "job-1", type |-> job_type, active |-> TRUE, passes |-> 1,
     speed |-> 800, power_min |-> 0, power_max |-> 600,
     air_assist |-> TRUE, offset |-> 0,
     laser_mode |-> IF job_type = "raster" THEN "M4" ELSE "M3",
     params |-> _DEFAULT_PARAMS(job_type)]

JobTypes == {"cut", "fill", "raster"}

\* Layer.to_svg_attributes: data-job-idx -> job.to_json() for each job
to_svg_attributes(jobs) ==
    [k \in {JobKey(idx - 1) : idx \in 1..Len(jobs)} |->
        to_json(jobs[CHOOSE idx \in 1..Len(jobs) : JobKey(idx - 1) = k])]

\* Layer.from_svg_attributes: reads data-job-0, data-job-1, ... and stops at
\* the first index that is missing
RECURSIVE from_svg_attributes(_, _)
from_svg_attributes(attrs, idx) ==
    IF JobKey(idx) \notin DOMAIN attrs THEN <<>>
    ELSE <<from_json(attrs[JobKey(idx)])>> \o from_svg_attributes(attrs, idx + 1)

\* variant that leaves the element as it is
clean_stale_job_attrs_none(attrs) == attrs

\* clean_stale_job_attrs: deletes every attribute whose name matches
clean_stale_job_attrs(attrs) ==
    [k \in {n \in DOMAIN attrs : ~_DATA_JOB_RE(n)} |-> attrs[k]]

\* elem.set(key, value) for every pair of a dict
SetAll(attrs, new) ==
    [k \in DOMAIN attrs \cup DOMAIN new |-> IF k \in DOMAIN new THEN new[k] ELSE attrs[k]]

\* a job as an earlier save of the extension left it on the element
StoredJob(idx) ==
    to_json([create_default(IF idx % 2 = 0 THEN "fill" ELSE "cut")
                EXCEPT !.active = (idx % 2 = 0)])

\* the attribute names an element carries besides id when it is loaded: job
\* attributes of earlier saves (up to MaxJobs + 1 of them, with or without a
\* gap), a two-digit index, and names the pattern does not match
InitialNames ==
    { {},
      {JobKey(idx) : idx \in 0..MaxJobs},
      {JobKey(0), JobKey(MaxJobs)},
      {JobKey(0), JobKey(1), <<"data-job-", "x">>},
      {JobKey(0), <<"data-job-", "0", "1">>},
      {JobKey(1), <<"data-job-", "1", "0">>, <<"data-job-">>} }

ElementOf(names) ==
    [k \in names \cup {<<"id">>} |->
        IF k = <<"id">> THEN "layer1"
        ELSE IF _DATA_JOB_RE(k) THEN StoredJob(Len(k) + Cardinality(names))
        ELSE "kept"]

\* the dialog open on the layers that load_layers read from the element
InitSvg ==
    /\ elem_attrs \in {ElementOf(names) : names \in InitialNames}
    /\ layer_jobs = from_svg_attributes(elem_attrs, 0)
    /\ loaded = <<>>
    /\ svg_pc = "edit"
    /\ OptimizerIdle /\ HatchIdle /\ CacheIdle /\ ExportIdle
    /\ ExtractIdle /\ RasterIdle /\ CallIdle /\ LayerIdle

\* Layer.add_job
Layer_add_job ==
    \E job_type \in JobTypes :
        /\ svg_pc = "edit"
        /\ Len(layer_jobs) < MaxJobs
        /\ layer_jobs' = Append(layer_jobs, create_default(job_type))
        /\ svg_pc' = "edit"
        /\ UNCHANGED <<elem_attrs, loaded>>
        /\ UNCHANGED rest_svg

\* Layer.remove_job: an index outside the list is ignored
Layer_remove_job ==
    \E index \in 0..MaxJobs :
        /\ svg_pc = "edit"
        /\ layer_jobs' =
              IF index < Len(layer_jobs)
              THEN [i \in 1..(Len(layer_jobs) - 1) |->
                        IF i <= index THEN layer_jobs[i] ELSE layer_jobs[i + 1]]
              ELSE layer_jobs
        /\ svg_pc' = "edit"
        /\ UNCHANGED <<elem_attrs, loaded>>
        /\ UNCHANGED rest_svg

\* Layer.move_job_up, called with the index of a job of the list
Layer_move_job_up ==
    \E index \in 0..(Len(layer_jobs) - 1) :
        /\ svg_pc = "edit"
        /\ layer_jobs' =
              IF index > 0
              THEN [layer_jobs EXCEPT ![index + 1] = layer_jobs[index],
                                      ![index] = layer_jobs[index + 1]]
              ELSE layer_jobs
        /\ svg_pc' = "edit"
        /\ UNCHANGED <<elem_attrs, loaded>>
        /\ UNCHANGED rest_svg

\* Layer.move_job_down, called with the index of a job of the list
Layer_move_job_down ==
    \E index \in 0..(Len(layer_jobs) - 1) :
        /\ svg_pc = "edit"
        /\ layer_jobs' =
              IF index < Len(layer_jobs) - 1
              THEN [layer_jobs EXCEPT ![index + 1] = layer_jobs[index + 2],
                                      ![index + 2] = layer_jobs[index + 1]]
              ELSE layer_jobs
        /\ svg_pc' = "edit"
        /\ UNCHANGED <<elem_attrs, loaded>>
        /\ UNCHANGED rest_svg

\* _update_job_field("active", value) on the selected job
_update_job_field ==
    \E index \in 0..(Len(layer_jobs) - 1), value \in BOOLEAN :
        /\ svg_pc = "edit"
        /\ layer_jobs' = [layer_jobs EXCEPT ![index + 1].active = value]
        /\ svg_pc' = "edit"
        /\ UNCHANGED <<elem_attrs, loaded>>
        /\ UNCHANGED rest_svg

\* save_layers for the layer and its element
save_layers ==
    /\ svg_pc = "edit"
    /\ elem_attrs' = SetAll(clean_stale_job_attrs(elem_attrs), to_svg_attributes(layer_jobs))
    /\ svg_pc' = "saved"
    /\ UNCHANGED <<layer_jobs, loaded>>
    /\ UNCHANGED rest_svg

\* load_layers of the saved document
load_layers ==
    /\ svg_pc = "saved"
    /\ loaded' = from_svg_attributes(elem_attrs, 0)
    /\ svg_pc' = "loaded"
    /\ UNCHANGED <<elem_attrs, layer_jobs>>
    /\ UNCHANGED rest_svg

\* the dialog takes the layers that load_layers returned as its model
open_dialog ==
    /\ svg_pc = "loaded"
    /\ layer_jobs' = loaded
    /\ loaded' = <<>>
    /\ svg_pc' = "edit"
    /\ UNCHANGED elem_attrs
    /\ UNCHANGED rest_svg

NextSvg ==
    \/ Layer_add_job
    \/ Layer_remove_job
    \/ Layer_move_job_up
    \/ Layer_move_job_down
    \/ _update_job_field
    \/ save_layers
    \/ load_layers
    \/ open_dialog

SpecSvg == InitSvg /\ [][NextSvg]_vars

\* the names of the element that the pattern matches
JobAttrNames == {k \in DOMAIN elem_attrs : _DATA_JOB_RE(k)}

\* C20: once save_layers has written the layer onto its element, whatever
\* job attributes the element carried, its job attributes are exactly
\* data-job-0 .. data-job-(n-1) holding the layer's jobs in order, and
\* reading the element back gives exactly the layer's jobs
C20_SaveLoad ==
    /\ svg_pc \in {"saved", "loaded"} =>
          /\ JobAttrNames = {JobKey(idx) : idx \in 0..(Len(layer_jobs) - 1)}
          /\ \A idx \in 0..(Len(layer_jobs) - 1) :
                elem_attrs[JobKey(idx)] = to_json(layer_jobs[idx + 1])
          /\ from_svg_attributes(elem_attrs, 0) = layer_jobs
    /\ svg_pc = "loaded" => loaded = layer_jobs

\* a layer loaded from an element with stored jobs and a name the pattern
\* does not match, edited to two other jobs, saved and read back
C20_Witness ==
    /\ svg_pc = "loaded"
    /\ Len(layer_jobs) = 2
    /\ layer_jobs[1].type = "raster"
    /\ layer_jobs[2].type = "fill"
    /\ ~layer_jobs[2].active
    /\ loaded = layer_jobs
    /\ <<"data-job-", "x">> \in DOMAIN elem_attrs

\* ========================================================================
\* Layer job management (src/models/layer.py)
\* ========================================================================
\* One Layer whose self_jobs are told apart by their id; the calls take any
\* integer index of IndexPool.
MaxAdds == 4

rest_layer ==
    <<vars_opt, vars_hatch, vars_cache, vars_export, vars_extract, vars_raster, vars_call,
      vars_svg>>

\* the indices the calls are made with: below, inside and above the list
IndexPool == (0 - (MaxAdds + 2))..(MaxAdds + 1)

\* Python list subscription jobs[i]: the 1-based position read or written,
\* 0 when it raises IndexError
PyPos(n, i) ==
    IF 0 <= i /\ i < n THEN i + 1
    ELSE IF 0 - n <= i /\ i < 0 THEN n + i + 1
    ELSE 0

Op(name, index) == [fn |-> name, index |-> index]

\* the list with the entries at positions p and q exchanged
Swapped(list, p, q) == [list EXCEPT ![p] = list[q], ![q] = list[p]]

\* the guard of move_job_up: index > 0
move_up_guard(index, n) == index > 0

InitLayer ==
    /\ self_jobs = <<>>
    /\ next_id = 0
    /\ last_op = Uncalled
    /\ outcome = Pending
    /\ jobs_before = <<>>
    /\ live = {}
    /\ OptimizerIdle /\ HatchIdle /\ CacheIdle /\ ExportIdle
    /\ ExtractIdle /\ RasterIdle /\ CallIdle /\ SvgIdle

\* Layer.add_job: appends Job.create_default, whose id is a fresh uuid
Call_add_job ==
    /\ next_id < MaxAdds
    /\ next_id' = next_id + 1
    /\ self_jobs' = Append(self_jobs, next_id + 1)
    /\ last_op' = Op("add_job", 0)
    /\ outcome' = Returned(next_id + 1)
    /\ jobs_before' = self_jobs
    /\ live' = live \cup {next_id + 1}
    /\ UNCHANGED rest_layer

\* Layer.remove_job(index): pops when 0 <= index < len(jobs)
Call_remove_job ==
    \E index \in IndexPool :
        /\ last_op' = Op("remove_job", index)
        /\ jobs_before' = self_jobs
        /\ outcome' = Returned("None")
        /\ IF 0 <= index /\ index < Len(self_jobs)
           THEN /\ self_jobs' = [i \in 1..(Len(self_jobs) - 1) |->
                               IF i <= index THEN self_jobs[i] ELSE self_jobs[i + 1]]
                /\ live' = live \ {self_jobs[index + 1]}
           ELSE UNCHANGED <<self_jobs, live>>
        /\ UNCHANGED next_id
        /\ UNCHANGED rest_layer

\* Layer.move_job_up(index): when index > 0 the right-hand side reads
\* jobs[index - 1] and jobs[index], then both are assigned
Call_move_job_up ==
    \E index \in IndexPool :
        /\ last_op' = Op("move_job_up", index)
        /\ jobs_before' = self_jobs
        /\ IF move_up_guard(index, Len(self_jobs))
           THEN IF PyPos(Len(self_jobs), index - 1) = 0 \/ PyPos(Len(self_jobs), index) = 0
                THEN /\ outcome' = Raised("IndexError")
                     /\ UNCHANGED self_jobs
                ELSE /\ self_jobs' = Swapped(self_jobs, PyPos(Len(self_jobs), index),
                                        PyPos(Len(self_jobs), index - 1))
                     /\ outcome' = Returned(TRUE)
           ELSE /\ outcome' = Returned(FALSE)
                /\ UNCHANGED self_jobs
        /\ UNCHANGED <<next_id, live>>
        /\ UNCHANGED rest_layer

\* Layer.move_job_down(index): when index < len(jobs) - 1 the right-hand
\* side reads jobs[index + 1] and jobs[index], then both are assigned
Call_move_job_down ==
    \E index \in IndexPool :
        /\ last_op' = Op("move_job_down", index)
        /\ jobs_before' = self_jobs
        /\ IF index < Len(self_jobs) - 1
           THEN IF PyPos(Len(self_jobs), index + 1) = 0 \/ PyPos(Len(self_jobs), index) = 0
                THEN /\ outcome' = Raised("IndexError")
                     /\ UNCHANGED self_jobs
                ELSE /\ self_jobs' = Swapped(self_jobs, PyPos(Len(self_jobs), index),
                                        PyPos(Len(self_jobs), index + 1))
                     /\ outcome' = Returned(TRUE)
           ELSE /\ outcome' = Returned(FALSE)
                /\ UNCHANGED self_jobs
        /\ UNCHANGED <<next_id, live>>
        /\ UNCHANGED rest_layer

NextLayer ==
    \/ Call_add_job
    \/ Call_remove_job
    \/ Call_move_job_up
    \/ Call_move_job_down

SpecLayer == InitLayer /\ [][NextLayer]_vars

\* the list holds each added-and-not-removed job exactly once
EachLiveJobOnce ==
    /\ {self_jobs[i] : i \in 1..Len(self_jobs)} = live
    /\ \A i, j \in 1..Len(self_jobs) : self_jobs[i] = self_jobs[j] => i = j

\* a move by step (-1 up, +1 down): either the job at index and its
\* neighbour are exchanged and True is returned, or there is no job at
\* index or no neighbour, False is returned and the list is as before
MoveAsStated(step) ==
    LET index == last_op.index
        n == Len(jobs_before)
        possible == 0 <= index /\ index < n /\ 0 <= index + step /\ index + step < n
    IN  /\ outcome.status = "returned"
        /\ IF possible
           THEN outcome.value = TRUE /\ self_jobs = Swapped(jobs_before, index + 1, index + step + 1)
           ELSE outcome.value = FALSE /\ self_jobs = jobs_before

\* C21: move_job_up(index) and move_job_down(index) either exchange the
\* job at index with its neighbour above (below) and return True, or
\* return False and leave the list unchanged; neither raises; and after
\* any sequence of calls the list holds each added-and-not-removed job
\* exactly once
C21_Moves ==
    /\ last_op.fn = "move_job_up" => MoveAsStated(0 - 1)
    /\ last_op.fn = "move_job_down" => MoveAsStated(1)
    /\ EachLiveJobOnce

\* the part of C21 that the code keeps: whatever the calls return or
\* raise, the list holds each added-and-not-removed job exactly once
C21_EachJobOnce == EachLiveJobOnce

C21_Witness ==
    /\ last_op.fn = "move_job_up"
    /\ outcome = Raised("IndexError")
    /\ Len(self_jobs) = 2

\* C22 as stated: the list returned by optimize has a travel distance no
\* greater than that of the input order, so travel_savings is never negative
C22_NoWorse ==
    opt_pc = "done" =>
        metrics.optimized_travel_distance <= metrics.original_travel_distance

\* C22, amended: the nearest-neighbour order can travel farther than the
\* input order; what the first pick guarantees is that the move from the
\* start position to the first returned segment is no longer than the move
\* to the first input segment, and an empty input gives zero travel
C22_FirstMoveNoWorse ==
    opt_pc = "done" =>
        IF segments = <<>>
        THEN metrics.optimized_travel_distance = 0 /\ metrics.original_travel_distance = 0
        ELSE distance(start_position, start_point(optimized[1]))
                 <= distance(start_position, start_point(segments[1]))

\* a run over two or more segments whose returned order travels farther
\* than the input order although its first move is strictly shorter
C22_Witness ==
    /\ opt_pc = "done"
    /\ Len(segments) >= 2
    /\ metrics.optimized_travel_distance > metrics.original_travel_distance
    /\ distance(start_position, start_point(optimized[1]))
           < distance(start_position, start_point(segments[1]))

\* ------------------------------------------------------------------------
\* geometry/hatching.py: pairing of the intersections
\* ------------------------------------------------------------------------
\* the edges of the polygon under scan, in the rotated frame
ScanEdges == _build_edges(Rotated(polygon, angle))

\* a vertex of the polygon under scan lies on the scanline at sy
ThroughVertex(sy) == \E i \in 1..Len(polygon) : ScanY(polygon[i]) = sy

\* the returned segments that lie on the scanline at sy
OnLine(sy) == SelectSeq(hatch_segments, LAMBDA seg : ScanY(seg.points[1]) = sy)

\* every scanline taken so far has an even number of intersections and
\* gave one segment for every two of them
AllPaired ==
    \A k \in 1..Len(scanned) :
        LET xs == _scanline_intersections(ScanEdges, scanned[k])
        IN  /\ Len(xs) % 2 = 0
            /\ 2 * Len(OnLine(scanned[k])) = Len(xs)

\* C23: with the half-open straddle test every scanline crosses the edge
\* loop of a simple polygon an even number of times, so all intersections
\* are paired and none is dropped, also on a scanline through a vertex
C23_EvenCrossings ==
    (hatch_pc \in {"scan", "done"} /\ polygon \notin CrossingPolygons) => AllPaired

\* a scanline through a vertex in the middle of a side, and one through
\* two vertices of the diamond, have been taken
C23_Witness ==
    /\ hatch_pc = "done"
    /\ polygon \notin CrossingPolygons
    /\ \E k \in 1..Len(scanned) :
          /\ ThroughVertex(scanned[k])
          /\ Len(_scanline_intersections(ScanEdges, scanned[k])) = 2
          /\ Len(OnLine(scanned[k])) = 1

\* the rotated-frame x of a point of the original frame
ScanX(pt) == _rotate(pt, CosNeg(angle), SinNeg(angle))[1]

\* the two ends of a segment along its scanline, whichever way it runs
Span(seg) == {ScanX(seg.points[1]), ScanX(seg.points[2])}

\* the intersections of the scanline at sy in ascending order
SortedCrossings(sy) == SortSeq(_scanline_intersections(ScanEdges, sy), LAMBDA a, b : a < b)

\* the spans between the 1st and 2nd, the 3rd and 4th, ... sorted intersection
ConsecutivePairs(sy) ==
    LET xs == SortedCrossings(sy)
    IN  {{xs[2 * j - 1], xs[2 * j]} : j \in 1..(Len(xs) \div 2)}

\* C24 as stated: a vertex list whose edges cross can produce an odd number
\* of intersections on a scanline (the trailing one then being dropped)
C24_OddCrossing ==
    (hatch_pc = "done" /\ polygon \in CrossingPolygons /\ spacing > 0) =>
        \E sy \in y_min..y_max : Len(_scanline_intersections(ScanEdges, sy)) % 2 = 1

\* C24, amended: also for a vertex list whose edges cross every scanline
\* has an even number of intersections, because the edge loop is closed;
\* they are sorted ascending and paired consecutively and none is dropped
C24_CrossingPaired ==
    (hatch_pc \in {"scan", "done"} /\ polygon \in CrossingPolygons) =>
        /\ AllPaired
        /\ \A k \in 1..Len(scanned) :
              {Span(OnLine(scanned[k])[i]) : i \in 1..Len(OnLine(scanned[k]))}
                  = ConsecutivePairs(scanned[k])
        /\ \A sy \in y_min..y_max : Len(_scanline_intersections(ScanEdges, sy)) % 2 = 0

\* a bowtie scanned on a line with four intersections, giving two segments
C24_Witness ==
    /\ hatch_pc = "done"
    /\ polygon \in CrossingPolygons
    /\ \E k \in 1..Len(scanned) :
          /\ Len(_scanline_intersections(ScanEdges, scanned[k])) = 4
          /\ Len(OnLine(scanned[k])) = 2

\* a segment runs from the smaller to the larger x of its scanline
Ascending(seg) == ScanX(seg.points[1]) <= ScanX(seg.points[2])

\* a segment runs from the larger to the smaller x of its scanline
Descending(seg) == ScanX(seg.points[1]) >= ScanX(seg.points[2])

\* the segments of one scanline in ascending form: each runs upward in x
\* and the next begins at or after the end of the one before
AscendingForm(segs) ==
    /\ \A i \in 1..Len(segs) : Ascending(segs[i])
    /\ \A i \in 1..(Len(segs) - 1) : ScanX(segs[i].points[2]) <= ScanX(segs[i + 1].points[1])

\* the segments of one scanline in reversed form: pair order and point
\* order both reversed
ReversedForm(segs) ==
    /\ \A i \in 1..Len(segs) : Descending(segs[i])
    /\ \A i \in 1..(Len(segs) - 1) : ScanX(segs[i].points[2]) >= ScanX(segs[i + 1].points[1])

\* the spans of a list of segments, each with the y of its scanline
SpansOf(segs) == {<<ScanY(segs[i].points[1]), Span(segs[i])>> : i \in 1..Len(segs)}

\* C25: with alternate set the scanlines of even index (the first is 0) are
\* emitted in ascending pair order, each segment from the smaller to the
\* larger x, and those of odd index with pair order and point order both
\* reversed; with alternate unset every scanline is ascending; the set of
\* spans is the same in both modes
C25_Serpentine ==
    (hatch_pc = "done" /\ ~Degenerate(polygon, spacing)) =>
        /\ \A k \in 1..Len(scanned) :
              IF alternate /\ (k - 1) % 2 = 1
              THEN ReversedForm(OnLine(scanned[k]))
              ELSE AscendingForm(OnLine(scanned[k]))
        /\ \A i \in 1..(Len(hatch_segments) - 1) :
              \E k, l \in 1..Len(scanned) :
                  /\ k <= l
                  /\ ScanY(hatch_segments[i].points[1]) = scanned[k]
                  /\ ScanY(hatch_segments[i + 1].points[1]) = scanned[l]
        /\ SpansOf(hatch_segments)
               = SpansOf(generate_hatch_lines(polygon, angle, spacing, ~alternate))
        /\ Len(hatch_segments)
               = Len(generate_hatch_lines(polygon, angle, spacing, ~alternate))

\* the U hatched with alternate set: its second scanline crosses both arms
\* and was emitted right arm first, each segment running downward in x
C25_Witness ==
    /\ hatch_pc = "done"
    /\ alternate
    /\ Len(scanned) >= 2
    /\ Len(OnLine(scanned[2])) = 2
    /\ ScanX(OnLine(scanned[2])[1].points[1]) > ScanX(OnLine(scanned[2])[1].points[2])
    /\ ScanX(OnLine(scanned[2])[1].points[2]) > ScanX(OnLine(scanned[2])[2].points[1])

\* the pixel index along the line, and the line index, of a scan-line point
AlongLine(pt) == IF direction = "horizontal" THEN pt[1] ELSE 10 - pt[2]

AcrossLine(pt) == IF direction = "horizontal" THEN 10 - pt[2] ELSE pt[1]

\* the power of the pixel located at a scan-line point
PowerAt(pt) ==
    _pixel_to_power(pixels[(10 - pt[2]) + 1][pt[1] + 1],
                    scan_power_min, scan_power_max - scan_power_min, FALSE)

\* C26: on every scan line the pixels are visited in increasing index on
\* even line indices and in decreasing index on odd ones, and the k-th
\* power is that of the pixel at the k-th point; so every emitted pair has
\* a power list as long as its point list, of length at least 2
C26_LineOrder ==
    \A r \in 1..Len(results) :
        LET pts == results[r].segment.points
            pws == results[r].power_list
            line == emitted_from[r]
        IN  /\ Len(pws) = Len(pts)
            /\ Len(pts) >= 2
            /\ Len(pts) = ScanWidth
            /\ \A k \in 1..Len(pts) :
                  /\ AcrossLine(pts[k]) = line
                  /\ AlongLine(pts[k]) = IF line % 2 = 0 THEN k - 1 ELSE Len(pts) - k
                  /\ pws[k] = PowerAt(pts[k])

\* an odd line with two different pixels has been emitted, darker pixel last
C26_Witness ==
    /\ raster_pc = "done"
    /\ \E r \in 1..Len(results) :
          /\ emitted_from[r] % 2 = 1
          /\ AlongLine(results[r].segment.points[1]) = 1
          /\ results[r].power_list[1] < results[r].power_list[2]

\* ------------------------------------------------------------------------
\* export_layers.py: the fill job
\* ------------------------------------------------------------------------
\* the extracted segments a fill job may hatch
ClosedSegments(segs) ==
    SelectSeq(segs, LAMBDA seg : seg.path_type = CLOSED /\ Len(seg.points) >= 3)

\* the hatch lines of a list of polygons for the job, as a set, a line and
\* its reverse taken as one
HatchSet(segs, job) ==
    UNION { LET hs == generate_hatch_lines(segs[i].points, job.params.angle,
                                           job.params.spacing, job.params.alternate)
            IN  {{hs[k].points, Reversed(hs[k].points)} : k \in 1..Len(hs)}
            : i \in 1..Len(segs) }

\* the fill job in turn, on a layer whose extraction returns
FillJobRuns ==
    /\ export_pc = "jobs"
    /\ job_idx < Len(active_jobs_)
    /\ CurJob.type = "fill"
    /\ ~ExtractRaises(CurElem)

\* C27: a fill job hatches only the extracted segments that are CLOSED and
\* have at least 3 points, OPEN segments giving no hatch line; when the
\* layer has no segment or no hatch line results it emits nothing at all,
\* and in every case the export goes on with the next job
C27_FillJob ==
    [][FillJobRuns =>
          LET closed == ClosedSegments(_extract_segments(CurElem))
              lines == HatchSet(closed, CurJob)
          IN  /\ export_pc' = "jobs"
              /\ job_idx' = job_idx + 1
              /\ IF lines = {}
                 THEN _commands' = _commands /\ jobs_done' = jobs_done
                 ELSE /\ Len(jobs_done') = Len(jobs_done) + 1
                      /\ Len(_commands') > Len(_commands)
                      /\ LET done == jobs_done'[Len(jobs_done')]
                         IN  /\ done.job = CurJob
                             /\ {{done.lines[k].points, Reversed(done.lines[k].points)} :
                                     k \in 1..Len(done.lines)} = lines]_vars

\* a finished run over the layer without visible shape and the layer with
\* only an open polyline: both fill jobs emitted nothing and the cut job
\* after the second one ran
C27_Witness ==
    /\ export_pc = "done"
    /\ \E k \in 1..Len(document) : document[k].label = "empty"
    /\ \E k \in 1..Len(document) : document[k].label = "bracket"
    /\ Len(jobs_done) = 1
    /\ jobs_done[1].job.type = "cut"
    /\ jobs_done[1].lines[1].points = Bracket.points

\* ------------------------------------------------------------------------
\* export_layers.py: the output file
\* ------------------------------------------------------------------------
\* C28: the file is written only after the footer has been emitted, in one
\* write of the complete command stream; a run that fails before that point
\* stays failed and leaves the file as it was, absent or holding the
\* earlier content, so that no partial output exists
C28_WriteAfterFooter ==
    [][/\ export_pc' # "done" => output_file' = output_file
       /\ (export_pc # "done" /\ export_pc' = "done") =>
             /\ export_pc = "footer"
             /\ _commands # <<>>
             /\ _commands[Len(_commands)] = Command("footer")
             /\ output_file' = _commands
             /\ _commands' = _commands
       /\ export_pc = "failed" => export_pc' = "failed"]_vars

\* a run that failed after emitting commands, the earlier file untouched
C28_Witness ==
    /\ export_pc = "failed"
    /\ Len(_commands) > 1
    /\ output_file = OldFile

\* C29: optimize leaves its input untouched: no step of it changes the
\* input list, its order or the points of any input segment; reordering
\* works on a copy of the list and a reversal gives a new segment
C29_InputUntouched ==
    [][(opt_pc = "start" \/ opt_pc = "loop") => segments' = segments]_vars

\* a finished run that reordered its input and reversed a segment of it
C29_Witness ==
    /\ opt_pc = "done"
    /\ Len(segments) >= 2
    /\ metrics.paths_reversed > 0
    /\ optimized[1].element_id # segments[1].element_id
    /\ \E i \in 1..Len(optimized), j \in 1..Len(segments) :
          /\ optimized[i].element_id = segments[j].element_id
          /\ optimized[i].points # segments[j].points
          /\ optimized[i].points = Reversed(segments[j].points)

\* C30: the cache never returns one shape's segments for another: two
\* requests receive the same list only if they are for the same shape and
\* the same viewport height, and the list a request receives was built from
\* the shape and the height it names, also for shapes without an id
C30_OwnSegments ==
    /\ \A p, q \in DOMAIN requested : requested[p] = requested[q] => p = q
    /\ (last_call.op = "extract" /\ ~last_call.raised) =>
          /\ lists[last_call.result].shape = last_call.shape
          /\ lists[last_call.result].height = last_call.height

====
